---- MODULE Spec2Model ----
(***************************************************************************)
(* NetJobs: a coordinator (NetJobs.py) that prepares, starts and collects  *)
(* jobs on remote agents (NetJobsAgent.py) over TCP.                       *)
(*                                                                         *)
(* Text is modelled by what split(TAB) sees of it: a byte string is a      *)
(* sequence of TAB-separated fields, a field is a sequence of atoms, and   *)
(* the atom "LF" is the line feed.  A connection carries, in each          *)
(* direction, the sequence of byte strings written by sendall; recv        *)
(* returns the concatenation of a non-empty prefix of what was written.    *)
(***************************************************************************)
EXTENDS Integers, Sequences, FiniteSets, TLC

(* ------------------------------------------------------------------ *)
(* Bounds of the model.                                                 *)
(* ------------------------------------------------------------------ *)
MaxConns == 2
MaxTime == 3
MaxCmds == 1

(* ------------------------------------------------------------------ *)
(* Program constants.                                                   *)
(* ------------------------------------------------------------------ *)
TIMEOUT_NONE == 0
SELECT_TIMEOUT == 1
MIN_HOSTS_ALL == -1
BUFFER_SIZE == 4096
PyNone == -1

READY_STRING == << <<"// READY //", "LF">> >>
START_STRING == << <<"// START //", "LF">> >>
KILL_STRING == << <<"// KILL //", "LF">> >>
DONE_STRING == << <<"// DONE //", "LF">> >>
SUCCESS_STATUS == <<"SUCCESS">>
ERROR_STATUS == <<"ERROR">>
TIMEOUT_STATUS == <<"TIMEOUT">>
KILLED_STATUS == <<"KILLED">>
Statuses == {SUCCESS_STATUS, ERROR_STATUS, TIMEOUT_STATUS, KILLED_STATUS}

(* ProcThread.result before any result was composed. *)
ResultNONE == << <<"NONE">> >>
(* b'' : what recv returns when the peer has closed. *)
EmptyBytes == << <<>> >>

(* ------------------------------------------------------------------ *)
(* Text helpers.                                                        *)
(* ------------------------------------------------------------------ *)
(* a + b on byte strings: the last field of a and the first of b join. *)
Concat(a, b) ==
  SubSeq(a, 1, Len(a) - 1) \o << a[Len(a)] \o b[1] >> \o SubSeq(b, 2, Len(b))

RECURSIVE ConcatAll(_)
ConcatAll(q) == IF Len(q) = 1 THEN q[1] ELSE Concat(q[1], ConcatAll(Tail(q)))

(* s.replace('\n', '') *)
StripNL(s) == SelectSeq(s, LAMBDA a : a # "LF")

(* str(n) and int(s) for the numbers a timeout record carries. *)
StrOfInt(n) ==
  CASE n = 0 -> <<"0">> [] n = 1 -> <<"1">> [] n = 2 -> <<"2">> [] n = 3 -> <<"3">>
    [] OTHER -> <<"9">>

IsIntStr(s) == s \in {<<"0">>, <<"1">>, <<"2">>, <<"3">>, <<"9">>}

IntOfStr(s) ==
  CASE s = <<"0">> -> 0 [] s = <<"1">> -> 1 [] s = <<"2">> -> 2 [] s = <<"3">> -> 3
    [] OTHER -> 9

(* len() of an atom, a field and a byte string. *)
AtomLen(a) ==
  CASE a = "BIG" -> 5000
    [] a = "LF" -> 1
    [] a \in {"SUCCESS", "TIMEOUT"} -> 7
    [] a = "KILLED" -> 6
    [] a = "ERROR" -> 5
    [] a = "TypeError" -> 63
    [] OTHER -> 2

RECURSIVE FieldLen(_)
FieldLen(s) == IF s = <<>> THEN 0 ELSE AtomLen(Head(s)) + FieldLen(Tail(s))

RECURSIVE BytesLen(_)
BytesLen(b) ==
  IF Len(b) = 1 THEN FieldLen(b[1]) ELSE FieldLen(b[1]) + 1 + BytesLen(Tail(b))

(* s.split(TAB) of a text in which the atom "TAB" is the tab character. *)
RECURSIVE SplitTab(_)
SplitTab(s) ==
  IF \A n \in 1..Len(s) : s[n] # "TAB" THEN <<s>>
  ELSE LET n == CHOOSE m \in 1..Len(s) : s[m] = "TAB" /\ \A j \in 1..(m - 1) : s[j] # "TAB"
       IN  <<SubSeq(s, 1, n - 1)>> \o SplitTab(SubSeq(s, n + 1, Len(s)))

(* The configuration records of the wire protocol; a command is written as
   it stands in the configuration file, tab characters included. *)
MsgName(t) == << <<"name">>, <<t, "LF">> >>
MsgCommand(c) == << <<"command">> >> \o SplitTab(c \o <<"LF">>)
MsgTimeout(n) == << <<"timeout">>, StrOfInt(n) \o <<"LF">> >>
MsgBogus == << <<"bogus">>, <<"x", "LF">> >>

(* ------------------------------------------------------------------ *)
(* State.                                                               *)
(* ------------------------------------------------------------------ *)
VARIABLES
  now,         \* wall clock, in seconds
  nconn,       \* number of TCP connections opened so far
  ca,          \* per connection: byte strings written coordinator -> agent, unread
  ac,          \* per connection: byte strings written agent -> coordinator, unread
  cEnd,        \* per connection: the coordinator's end: "none", "open", "closed"
  aEnd,        \* per connection: the agent's end: "none", "open", "closed"
  backlog,     \* connections established and not yet accepted by the agent
  a_pc,        \* agent main thread: position in main()
  name,        \* agent global name
  ready,       \* agent global ready
  commands,    \* get_specs: commands
  timeouts,    \* get_specs: timeouts
  sosTimeout,  \* agent global sosTimeout
  subthreads,  \* agent global subthreads (indices of ProcThreads)
  sock,        \* main(): sock, the accepted connection (0: none)
  spawn,       \* start_run: [i: loop index, proc: the local proc (0: unbound)]
  sos,         \* per connection: the SOSThread object main() made for it
  pt,          \* ProcThread objects of the current run (why, composed: history)
  procs,       \* subprocesses of the current run
  sentLog,     \* history: per connection, the results and DONE the agent wrote
  killAt,      \* history: per connection, Len(sentLog) when KILL was received (-1: never)
  regAtDone,   \* history: per connection, the commands registered when DONE was written
  agLog,       \* history: per connection, get_specs: <<bytes received, bytes echoed>>
  plan,        \* coordinator: the TestConfig being run (label aside)
  testsLeft,   \* start(): the tests of self.tests after the one being run
  c_pc,        \* coordinator main thread: position in start()
  prep,        \* prep_agents: [i: target index, sock, msg: messages sent, await]
  strt,        \* start_agents: [i: index in the keys of sockets, step]
  sockets,     \* NetJobs.sockets: targets in insertion order
  sockOf,      \* NetJobs.sockets: target -> connection (0: none)
  listeners,   \* NetJobs.listeners: targets in insertion order
  lt,          \* the ListenThread objects, by target
  hostOf,      \* per connection: the host the coordinator connected to
  testAborted, \* NetJobs.testAborted
  timeoutsRemaining, \* test.timeoutsRemaining
  results,     \* test.results: target -> command -> <<>> (None) or <<status, output>>
  peerSent,    \* per connection: writes of a modelled peer after configuration
  failedT,     \* history: targets handle_timeout was called for
  killedT,     \* history: targets whose listener had kill() called
  startSent,   \* history: targets START was written to, with the listeners then registered
  cfgLog,      \* history: per connection, configuration messages the coordinator wrote
  respLog      \* history: per connection, responses the coordinator read in prep_agents

netVars == <<nconn, ca, ac, cEnd, aEnd, backlog>>
mainVars == <<a_pc, name, ready, commands, timeouts, sosTimeout, subthreads, sock, spawn>>
histVars == <<sentLog, killAt, regAtDone, agLog>>
agentVars == <<mainVars, sos, pt, procs, histVars>>
coordVars == <<plan, testsLeft, c_pc, prep, strt, sockets, sockOf, listeners, lt, hostOf, testAborted,
               timeoutsRemaining, results, peerSent, failedT, killedT, startSent,
               cfgLog, respLog>>
vars == <<now, netVars, agentVars, coordVars>>

Conns == 1..MaxConns
Threads == 1..MaxCmds

NoSOS == [pc |-> "none", running |-> FALSE, timeout |-> 0, idx |-> 0,
          cur |-> 0, curSock |-> 0, reason |-> <<KILLED_STATUS, <<>>>>]
NoThread == [pc |-> "none", running |-> FALSE, result |-> ResultNONE,
             command |-> <<>>, timeout |-> PyNone, proc |-> 0, sock |-> 0,
             startTime |-> 0, why |-> "", composed |-> FALSE]
NoProc == [st |-> "none", rc |-> 0, out |-> <<>>, err |-> <<>>]

InitNet ==
  /\ now = 0
  /\ nconn = 0
  /\ ca = [c \in Conns |-> <<>>]
  /\ ac = [c \in Conns |-> <<>>]
  /\ cEnd = [c \in Conns |-> "none"]
  /\ aEnd = [c \in Conns |-> "none"]
  /\ backlog = <<>>

InitAgent ==
  /\ a_pc = "loop_top"
  /\ name = <<>>
  /\ ready = FALSE
  /\ commands = <<>>
  /\ timeouts = <<>>
  /\ sosTimeout = TIMEOUT_NONE
  /\ subthreads = <<>>
  /\ sock = 0
  /\ spawn = [i |-> 0, proc |-> 0]
  /\ sos = [c \in Conns |-> NoSOS]
  /\ pt = [i \in Threads |-> NoThread]
  /\ procs = [i \in Threads |-> NoProc]
  /\ sentLog = [c \in Conns |-> <<>>]
  /\ killAt = [c \in Conns |-> -1]
  /\ regAtDone = [c \in Conns |-> <<>>]
  /\ agLog = [c \in Conns |-> <<>>]

(* sock.sendall(b) by the agent on connection c: the bytes reach the peer
   unless this end is closed (then sendall raises). *)
AgentWrite(c, b) ==
  ac' = IF aEnd[c] = "open" THEN [ac EXCEPT ![c] = Append(@, b)] ELSE ac

(* The same, for the writes that follow START: they are also logged. *)
AgentWriteLogged(c, b) ==
  /\ AgentWrite(c, b)
  /\ sentLog' = IF aEnd[c] = "open" THEN [sentLog EXCEPT ![c] = Append(@, b)]
                ELSE sentLog


(* sock.recv(BUFFER_SIZE) on the agent's side of connection c: the bytes of
   some non-empty prefix of what the coordinator wrote and nobody read yet. *)
RecvCuts(q) == 1..Len(q)
RecvBuf(q, k) == ConcatAll(SubSeq(q, 1, k))
RecvRest(q, k) == SubSeq(q, k + 1, Len(q))

(* ------------------------------------------------------------------ *)
(* Agent: main().                                                       *)
(* ------------------------------------------------------------------ *)
(* Top of the while True loop: the globals are reset. *)
A_LoopTop ==
  /\ a_pc = "loop_top"
  /\ name' = <<>>
  /\ subthreads' = <<>>
  /\ ready' = FALSE
  /\ a_pc' = "accept"
  /\ UNCHANGED <<coordVars, now, netVars, commands, timeouts, sosTimeout, sock, spawn,
                 sos, pt, procs, histVars>>

(* listenSock.accept(), sock.settimeout, and the first lines of get_specs. *)
A_Accept ==
  /\ a_pc = "accept"
  /\ backlog # <<>>
  /\ sock' = Head(backlog)
  /\ backlog' = Tail(backlog)
  /\ aEnd' = [aEnd EXCEPT ![Head(backlog)] = "open"]
  /\ sosTimeout' = TIMEOUT_NONE
  /\ commands' = <<>>
  /\ timeouts' = <<>>
  /\ a_pc' = "gs_recv"
  /\ UNCHANGED <<coordVars, now, nconn, ca, ac, cEnd, name, ready, subthreads, spawn,
                 sos, pt, procs, histVars>>

(* get_specs: what one received string does to the registered run.  The
   result is the new <<name, ready, commands, timeouts, sosTimeout, go on>>. *)
GetSpecsApply(buf, nm, cmds, tos, sosT) ==
  LET tokens == [i \in 1..Len(buf) |-> StripNL(buf[i])]
      stop == [name |-> nm, ready |-> FALSE, commands |-> cmds, timeouts |-> tos,
               sosTimeout |-> sosT, goOn |-> FALSE]
  IN  IF buf = READY_STRING
      THEN [stop EXCEPT !.ready = TRUE]
      ELSE IF Len(tokens) < 2 THEN stop
      ELSE IF tokens[1] = <<"name">>
           THEN [stop EXCEPT !.name = tokens[2], !.goOn = TRUE]
      ELSE IF tokens[1] = <<"command">>
           THEN [stop EXCEPT !.commands = Append(cmds, tokens[2]), !.goOn = TRUE]
      ELSE IF tokens[1] = <<"timeout">>
           THEN IF ~IsIntStr(tokens[2]) THEN stop
                ELSE LET timeout == IntOfStr(tokens[2])
                     IN  IF timeout = TIMEOUT_NONE
                         THEN [stop EXCEPT !.timeouts = Append(tos, PyNone),
                                           !.goOn = TRUE]
                         ELSE [stop EXCEPT !.timeouts = Append(tos, timeout),
                                           !.sosTimeout =
                                              IF timeout > sosT THEN timeout ELSE sosT,
                                           !.goOn = TRUE]
      ELSE stop

(* A get_specs that echoed the decoded string with its newlines removed. *)
EchoOf_Stripped(buf) == [n \in 1..Len(buf) |-> StripNL(buf[n])]

(* The bytes get_specs echoes for a received buffer. *)
EchoOf(buf) == buf

(* get_specs: one turn of "while not ready": recv, echo, interpret. *)
A_GetSpecsData ==
  /\ a_pc = "gs_recv"
  /\ \E k \in RecvCuts(ca[sock]) :
       LET buf == RecvBuf(ca[sock], k)
           r == GetSpecsApply(buf, name, commands, timeouts, sosTimeout)
       IN  /\ ca' = [ca EXCEPT ![sock] = RecvRest(@, k)]
           /\ AgentWrite(sock, EchoOf(buf))
           /\ agLog' = [agLog EXCEPT ![sock] = Append(@, <<buf, EchoOf(buf)>>)]
           /\ name' = r.name
           /\ ready' = r.ready
           /\ commands' = r.commands
           /\ timeouts' = r.timeouts
           /\ sosTimeout' = r.sosTimeout
           /\ a_pc' = IF r.goOn THEN "gs_recv" ELSE "mk_sos"
  /\ UNCHANGED <<coordVars, now, nconn, cEnd, aEnd, backlog, subthreads, sock, spawn,
                 sos, pt, procs, sentLog, killAt, regAtDone>>

(* get_specs: recv returns b'' (the peer closed: one empty token, "break")
   or raises socket.timeout after SOCKET_TIMEOUT seconds of silence ("break"). *)
A_GetSpecsBreak ==
  /\ a_pc = "gs_recv"
  /\ ca[sock] = <<>>
  /\ a_pc' = "mk_sos"
  /\ UNCHANGED <<coordVars, now, netVars, name, ready, commands, timeouts, sosTimeout,
                 subthreads, sock, spawn, sos, pt, procs, histVars>>

(* sosThread = SOSThread(sock, sosTimeout) *)
A_MkSOS ==
  /\ a_pc = "mk_sos"
  /\ sos' = [sos EXCEPT ![sock] = [NoSOS EXCEPT !.pc = "new", !.timeout = sosTimeout]]
  /\ a_pc' = "wait_start"
  /\ UNCHANGED <<coordVars, now, netVars, name, ready, commands, timeouts, sosTimeout,
                 subthreads, sock, spawn, pt, procs, histVars>>

(* "while ready": the loop is left when ready is False. *)
A_WaitStartExit ==
  /\ a_pc = "wait_start"
  /\ ~ready
  /\ a_pc' = "join"
  /\ UNCHANGED <<coordVars, now, netVars, name, ready, commands, timeouts, sosTimeout,
                 subthreads, sock, spawn, sos, pt, procs, histVars>>

(* A main() that began the run on whatever it read while it waited. *)
A_WaitStartData_Eager ==
  /\ a_pc = "wait_start"
  /\ ready
  /\ \E k \in RecvCuts(ca[sock]) : ca' = [ca EXCEPT ![sock] = RecvRest(@, k)]
  /\ sos' = [sos EXCEPT ![sock].pc = "start"]
  /\ spawn' = [i |-> 0, proc |-> 0]
  /\ a_pc' = "spawn"
  /\ UNCHANGED <<coordVars, now, nconn, ac, cEnd, aEnd, backlog, name, ready, commands,
                 timeouts, sosTimeout, subthreads, sock, pt, procs, histVars>>

(* "while ready": a non-empty buffer.  START starts the SOSThread and enters
   start_run; anything else is an unknown status; ready becomes False. *)
A_WaitStartData ==
  /\ a_pc = "wait_start"
  /\ ready
  /\ \E k \in RecvCuts(ca[sock]) :
       LET buf == RecvBuf(ca[sock], k)
       IN  /\ ca' = [ca EXCEPT ![sock] = RecvRest(@, k)]
           /\ IF buf = START_STRING
              THEN /\ sos' = [sos EXCEPT ![sock].pc = "start"]
                   /\ spawn' = [i |-> 0, proc |-> 0]
                   /\ a_pc' = "spawn"
                   /\ ready' = ready
              ELSE /\ ready' = FALSE
                   /\ UNCHANGED <<sos, spawn, a_pc>>
  /\ UNCHANGED <<coordVars, now, nconn, ac, cEnd, aEnd, backlog, name, commands, timeouts,
                 sosTimeout, subthreads, sock, pt, procs, histVars>>

(* "while ready": recv raises socket.timeout after SOCKET_TIMEOUT seconds of
   silence; nothing catches it and the main thread ends. *)
A_WaitStartTimeout ==
  /\ a_pc = "wait_start"
  /\ ready
  /\ ca[sock] = <<>>
  /\ cEnd[sock] = "open"
  /\ a_pc' = "crashed"
  /\ UNCHANGED <<coordVars, now, netVars, name, ready, commands, timeouts, sosTimeout,
                 subthreads, sock, spawn, sos, pt, procs, histVars>>

(* start_run: one turn of the loop over min(len(commands), len(timeouts)).
   ok: whether subprocess.Popen succeeded.  When it raises, the except clause
   only prints, and the ProcThread is made with the local proc as it is: the
   previous turn's subprocess, or unbound (UnboundLocalError ends main). *)
Min(a, b) == IF a < b THEN a ELSE b

NewThread(i, p) ==
  [NoThread EXCEPT !.pc = "start", !.command = commands[i],
                   !.timeout = timeouts[i], !.proc = p, !.sock = sock]

A_Spawn(ok) ==
  /\ a_pc = "spawn"
  /\ spawn.i < Min(Len(commands), Len(timeouts))
  /\ LET i == spawn.i + 1
         p == IF ok THEN i ELSE spawn.proc
     IN  IF p = 0
         THEN /\ a_pc' = "crashed"
              /\ UNCHANGED <<spawn, pt, procs, subthreads>>
         ELSE /\ procs' = IF ok THEN [procs EXCEPT ![i] = [NoProc EXCEPT !.st = "run"]]
                          ELSE procs
              /\ pt' = [pt EXCEPT ![i] = NewThread(i, p)]
              /\ subthreads' = Append(subthreads, i)
              /\ spawn' = [i |-> i, proc |-> p]
              /\ a_pc' = a_pc
  /\ UNCHANGED <<coordVars, now, netVars, name, ready, commands, timeouts, sosTimeout,
                 sock, sos, histVars>>

(* start_run returns; ready = False. *)
A_SpawnDone ==
  /\ a_pc = "spawn"
  /\ spawn.i >= Min(Len(commands), Len(timeouts))
  /\ ready' = FALSE
  /\ a_pc' = "join"
  /\ UNCHANGED <<coordVars, now, netVars, name, commands, timeouts, sosTimeout,
                 subthreads, sock, spawn, sos, pt, procs, histVars>>

(* A main() that went on to DONE without joining the ProcThreads. *)
A_Join_NoWait ==
  /\ a_pc = "join"
  /\ a_pc' = "send_done"
  /\ UNCHANGED <<coordVars, now, netVars, name, ready, commands, timeouts, sosTimeout,
                 subthreads, sock, spawn, sos, pt, procs, histVars>>

(* for t in subthreads: t.join() *)
A_Join ==
  /\ a_pc = "join"
  /\ \A n \in 1..Len(subthreads) : pt[subthreads[n]].pc = "dead"
  /\ a_pc' = "send_done"
  /\ UNCHANGED <<coordVars, now, netVars, name, ready, commands, timeouts, sosTimeout,
                 subthreads, sock, spawn, sos, pt, procs, histVars>>

(* sock.sendall(DONE_STRING), exceptions swallowed. *)
A_SendDone ==
  /\ a_pc = "send_done"
  /\ AgentWriteLogged(sock, DONE_STRING)
  /\ regAtDone' = [regAtDone EXCEPT ![sock] = commands]
  /\ a_pc' = "sos_stop"
  /\ UNCHANGED <<coordVars, now, nconn, ca, cEnd, aEnd, backlog, name, ready, commands,
                 timeouts, sosTimeout, subthreads, sock, spawn, sos, pt, procs,
                 killAt, agLog>>

(* sosThread.stop() *)
A_SosStop ==
  /\ a_pc = "sos_stop"
  /\ sos' = [sos EXCEPT ![sock].running = FALSE]
  /\ a_pc' = "close"
  /\ UNCHANGED <<coordVars, now, netVars, name, ready, commands, timeouts, sosTimeout,
                 subthreads, sock, spawn, pt, procs, histVars>>

(* sock.close() *)
A_Close ==
  /\ a_pc = "close"
  /\ aEnd' = [aEnd EXCEPT ![sock] = "closed"]
  /\ a_pc' = "loop_top"
  /\ UNCHANGED <<coordVars, now, nconn, ca, ac, cEnd, backlog, name, ready, commands,
                 timeouts, sosTimeout, subthreads, sock, spawn, sos, pt, procs,
                 histVars>>


(* ------------------------------------------------------------------ *)
(* Agent: subprocesses.                                                 *)
(* ------------------------------------------------------------------ *)
(* What a subprocess can end with: return code, stdout, stderr.  A negative
   return code is death by a signal. *)
Outcomes ==
  { [rc |-> 0, out |-> <<"hi", "LF">>, err |-> <<>>],
    [rc |-> 0, out |-> <<"BIG">>, err |-> <<>>],
    [rc |-> 0, out |-> <<"hi", "LF">>, err |-> <<"warn", "LF">>],
    [rc |-> 2, out |-> <<>>, err |-> <<"oops", "LF">>],
    [rc |-> -9, out |-> <<>>, err |-> <<>>] }

(* The subprocess ends by itself. *)
ProcExit(j) ==
  /\ procs[j].st = "run"
  /\ \E o \in Outcomes :
       procs' = [procs EXCEPT ![j] = [st |-> "exit", rc |-> o.rc, out |-> o.out,
                                      err |-> o.err]]
  /\ UNCHANGED <<coordVars, now, netVars, mainVars, sos, pt, histVars>>

(* proc.terminate(): SIGTERM; nothing happens to a subprocess that has ended. *)
Terminated(p) ==
  IF p.st = "run" THEN [st |-> "exit", rc |-> -15, out |-> <<>>, err |-> <<>>] ELSE p

(* ------------------------------------------------------------------ *)
(* Agent: ProcThread.                                                   *)
(* ------------------------------------------------------------------ *)
(* stop_and_kill_subproc: the result it assigns, name + TAB + command + TAB
   + reason. *)
KillResult(cmd, reason) == <<name, cmd>> \o reason

(* send_result: the result composed from the ended subprocess. *)
ComposeResult(nm, cmd, p) ==
  IF p.rc > 0 \/ p.err # <<>>
  THEN <<nm, cmd, ERROR_STATUS, p.err>>
  ELSE <<nm, cmd, SUCCESS_STATUS, p.out>>

(* run(): self.running = True; startTime = time.time() *)
P_Start(i) ==
  /\ pt[i].pc = "start"
  /\ pt' = [pt EXCEPT ![i].running = TRUE, ![i].startTime = now, ![i].pc = "loop"]
  /\ UNCHANGED <<coordVars, now, netVars, mainVars, sos, procs, histVars>>

(* The deadline test of run(): what "elapsedTime >= self.timeout" leads to.
   Comparing a float with None raises TypeError, which run() catches. *)
DeadlineTest(elapsed, timeout) ==
  IF timeout = PyNone THEN "raise"
  ELSE IF elapsed >= timeout THEN "timeout"
  ELSE "loop"

(* A run() that gave the reason of its except clause at the deadline too. *)
RunReason_Error(d) == <<ERROR_STATUS, <<"TypeError">>>>

(* The reason run() gives stop_and_kill_subproc: TIMEOUT_STATUS + TAB at the
   deadline, ERROR_STATUS + TAB + str(e) in the except clause. *)
RunReason(d) ==
  IF d = "raise" THEN <<ERROR_STATUS, <<"TypeError">>>> ELSE <<TIMEOUT_STATUS, <<>>>>

(* One turn of "while self.running and self.proc.poll() is None": the loop
   is left, or goes on, or the thread calls stop_and_kill_subproc on itself
   (running = False, terminate, result) and goes to send_result. *)
P_Loop(i) ==
  /\ pt[i].pc = "loop"
  /\ IF pt[i].running /\ procs[pt[i].proc].st = "run"
     THEN LET d == DeadlineTest(now - pt[i].startTime, pt[i].timeout)
          IN  IF d = "loop"
              THEN UNCHANGED <<pt, procs>>
              ELSE /\ procs' = [procs EXCEPT ![pt[i].proc] = Terminated(@)]
                   /\ pt' = [pt EXCEPT ![i].running = FALSE,
                                       ![i].result = KillResult(pt[i].command, RunReason(d)),
                                       ![i].why = d,
                                       ![i].pc = "sr_check"]
     ELSE /\ pt' = [pt EXCEPT ![i].pc = "sr_check"]
          /\ procs' = procs
  /\ UNCHANGED <<coordVars, now, netVars, mainVars, sos, histVars>>

(* send_result: if self.result == 'NONE' *)
P_SrCheck(i) ==
  /\ pt[i].pc = "sr_check"
  /\ pt' = [pt EXCEPT ![i].pc = IF pt[i].result = ResultNONE THEN "sr_comm" ELSE "sr_send"]
  /\ UNCHANGED <<coordVars, now, netVars, mainVars, sos, procs, histVars>>

(* send_result: communicate() returns when the subprocess has ended; the
   result is composed and assigned. *)
P_SrComm(i) ==
  /\ pt[i].pc = "sr_comm"
  /\ procs[pt[i].proc].st = "exit"
  /\ pt' = [pt EXCEPT ![i].result = ComposeResult(name, pt[i].command, procs[pt[i].proc]),
                      ![i].composed = TRUE,
                      ![i].pc = "sr_send"]
  /\ UNCHANGED <<coordVars, now, netVars, mainVars, sos, procs, histVars>>

(* send_result: if len(self.result) > BUFFER_SIZE the truncation reads the
   undefined name resultString and the NameError ends the thread; else
   self.sock.sendall(bytes(self.result)), exceptions swallowed. *)
TooLong(result) == BytesLen(result) > BUFFER_SIZE

P_SrSend(i) ==
  /\ pt[i].pc = "sr_send"
  /\ IF TooLong(pt[i].result)
     THEN UNCHANGED <<ac, sentLog>>
     ELSE AgentWriteLogged(pt[i].sock, pt[i].result)
  /\ pt' = [pt EXCEPT ![i].pc = "dead"]
  /\ UNCHANGED <<coordVars, now, nconn, ca, cEnd, aEnd, backlog, mainVars, sos, procs,
                 killAt, regAtDone, agLog>>

(* ------------------------------------------------------------------ *)
(* Agent: SOSThread of connection c.                                    *)
(* ------------------------------------------------------------------ *)
(* run(): self.running = True *)
S_Start(c) ==
  /\ sos[c].pc = "start"
  /\ sos' = [sos EXCEPT ![c].running = TRUE, ![c].pc = "loop"]
  /\ UNCHANGED <<coordVars, now, netVars, mainVars, pt, procs, histVars>>

(* while self.running: the thread ends, or enters select. *)
S_Loop(c) ==
  /\ sos[c].pc = "loop"
  /\ sos' = [sos EXCEPT ![c].pc = IF sos[c].running THEN "select" ELSE "dead"]
  /\ UNCHANGED <<coordVars, now, netVars, mainVars, pt, procs, histVars>>

(* select returns without the socket readable (its timeout ran out); this
   changes something only when running has become False meanwhile. *)
S_SelectIdle(c) ==
  /\ sos[c].pc = "select"
  /\ ~sos[c].running
  /\ sos' = [sos EXCEPT ![c].pc = "loop"]
  /\ UNCHANGED <<coordVars, now, netVars, mainVars, pt, procs, histVars>>

(* select returns the socket readable and recv returns bytes: KILL enters
   stop_and_kill_run, anything else is ignored. *)
S_Recv(c) ==
  /\ sos[c].pc = "select"
  /\ aEnd[c] = "open"
  /\ \E k \in RecvCuts(ca[c]) :
       LET buf == RecvBuf(ca[c], k)
       IN  /\ ca' = [ca EXCEPT ![c] = RecvRest(@, k)]
           /\ IF buf = KILL_STRING
              THEN /\ sos' = [sos EXCEPT ![c].running = FALSE, ![c].idx = 0,
                                         ![c].reason = <<KILLED_STATUS, <<>>>>,
                                         ![c].pc = "k_run"]
                   /\ killAt' = [killAt EXCEPT ![c] = Len(sentLog[c])]
              ELSE /\ sos' = [sos EXCEPT ![c].pc = "loop"]
                   /\ UNCHANGED killAt
  /\ UNCHANGED <<coordVars, now, nconn, ac, cEnd, aEnd, backlog, mainVars, pt, procs,
                 sentLog, regAtDone, agLog>>

(* recv returns b'' (the peer closed) and self.timeout != None, so
   socket.timeout is raised; or the socket was closed by main() and select
   raises.  Either way the except clause runs timeout_handler. *)
S_Except(c) ==
  /\ sos[c].pc = "select"
  /\ \/ aEnd[c] = "closed"
     \/ ca[c] = <<>> /\ cEnd[c] = "closed" /\ sos[c].timeout # PyNone
  /\ sos' = [sos EXCEPT ![c].running = FALSE, ![c].idx = 0,
                        ![c].reason = <<TIMEOUT_STATUS, <<>>>>,
                        ![c].pc = "k_run"]
  /\ UNCHANGED <<coordVars, now, netVars, mainVars, pt, procs, histVars>>

(* stop_and_kill_run and timeout_handler: "for thread in subthreads", the
   global list as it is when the iterator asks for the next element; then
   thread.stop_and_kill_subproc(reason): first self.running = False. *)
S_KillRun(c) ==
  /\ sos[c].pc = "k_run"
  /\ IF sos[c].idx < Len(subthreads)
     THEN LET i == subthreads[sos[c].idx + 1]
          IN  /\ pt' = [pt EXCEPT ![i].running = FALSE]
              /\ sos' = [sos EXCEPT ![c].idx = @ + 1, ![c].cur = i,
                                    ![c].curSock = pt[i].sock, ![c].pc = "k_res"]
     ELSE /\ sos' = [sos EXCEPT ![c].pc =
                        IF sos[c].reason[1] = KILLED_STATUS THEN "loop" ELSE "dead"]
          /\ pt' = pt
  /\ UNCHANGED <<coordVars, now, netVars, mainVars, procs, histVars>>

(* The loop variable keeps the thread object the iterator handed out, also
   when main() has replaced the list and made new threads meanwhile. *)
SameThread(c) == pt[sos[c].cur].sock = sos[c].curSock

(* stop_and_kill_subproc, the rest: self.proc.terminate() and the result. *)
S_KillRes(c) ==
  /\ sos[c].pc = "k_res"
  /\ LET i == sos[c].cur
     IN  IF SameThread(c)
         THEN /\ procs' = [procs EXCEPT ![pt[i].proc] = Terminated(@)]
              /\ pt' = [pt EXCEPT ![i].result = KillResult(pt[i].command, sos[c].reason)]
         ELSE UNCHANGED <<pt, procs>>
  /\ sos' = [sos EXCEPT ![c].pc = "k_run"]
  /\ UNCHANGED <<coordVars, now, netVars, mainVars, histVars>>

(* ------------------------------------------------------------------ *)
(* Coordinator: the test plan and the TestConfig built from it.         *)
(* ------------------------------------------------------------------ *)
AgentHost == "t1"
Targets == {"t1", "t2", "t3"}
CmdNames == << <<"c1">>, <<"c2">>, <<"c3">> >>

Max(a, b) == IF a > b THEN a ELSE b

(* A plan: targets in the order of specs.keys(), per target its commands,
   per target and command a timeout, the minhosts and the general timeout. *)
MkPlan(tgts, tos, mh) ==
  [targets |-> tgts,
   specs |-> [t \in Targets |-> SubSeq(CmdNames, 1, MaxCmds)],
   timeouts |-> [t \in Targets |-> [c \in {CmdNames[n] : n \in 1..MaxCmds} |-> tos[t]]],
   minHosts |-> mh,
   generalTimeout |-> 0]

PlanN(plan_) == Len(plan_.targets)

(* TestConfig.__init__: timeoutsRemaining. *)
InitTimeoutsRemaining(mh) == IF mh = 0 THEN PyNone ELSE mh

(* TestConfig.__init__: the deadline of the listener of target t. *)
RECURSIVE LongestTimeout(_, _, _)
LongestTimeout(cmds, tos, timeout) ==
  IF cmds = <<>> THEN timeout
  ELSE IF tos[Head(cmds)] = PyNone THEN PyNone
  ELSE LongestTimeout(Tail(cmds), tos, Max(timeout, tos[Head(cmds)]))

ListenerTimeout(plan_, t) ==
  LongestTimeout(plan_.specs[t], plan_.timeouts[t], plan_.generalTimeout)

(* TestConfig.__init__: results[target][command] = None. *)
NoResult == <<>>
InitResults(plan_) ==
  [t \in Targets |->
     IF \E n \in 1..PlanN(plan_) : plan_.targets[n] = t
     THEN [c \in {plan_.specs[t][n] : n \in 1..Len(plan_.specs[t])} |-> NoResult]
     ELSE <<>>]

(* The configuration messages prep_agents writes to target t, in order. *)
RECURSIVE CmdMsgs(_, _)
CmdMsgs(cmds, tos) ==
  IF cmds = <<>> THEN <<>>
  ELSE <<MsgCommand(Head(cmds)), MsgTimeout(tos[Head(cmds)])>> \o CmdMsgs(Tail(cmds), tos)

CfgMsgs(plan_, t) ==
  <<MsgName(t)>> \o CmdMsgs(plan_.specs[t], plan_.timeouts[t]) \o <<READY_STRING>>

NoListener == [pc |-> "none", running |-> FALSE, timeout |-> 0, sock |-> 0,
               startTime |-> 0, via |-> "", rem |-> 0, k |-> 0, klen |-> 0,
               waited |-> FALSE]

InitCoord(plans, pc0, more) ==
  /\ plan \in plans
  /\ testsLeft = more
  /\ c_pc = pc0
  /\ prep = [i |-> 1, sock |-> 0, msg |-> 0, await |-> FALSE]
  /\ strt = [i |-> 1, step |-> "listen"]
  /\ sockets = <<>>
  /\ sockOf = [t \in Targets |-> 0]
  /\ listeners = <<>>
  /\ lt = [t \in Targets |-> NoListener]
  /\ hostOf = [c \in Conns |-> ""]
  /\ testAborted = FALSE
  /\ timeoutsRemaining = InitTimeoutsRemaining(plan.minHosts)
  /\ results = InitResults(plan)
  /\ peerSent = [c \in Conns |-> 0]
  /\ failedT = {}
  /\ killedT = {}
  /\ startSent = <<>>
  /\ cfgLog = [c \in Conns |-> <<>>]
  /\ respLog = [c \in Conns |-> <<>>]

(* sock.sendall(b) by the coordinator on connection c. *)
CoordWrite(q, c, b) ==
  IF cEnd[c] = "open" THEN [q EXCEPT ![c] = Append(@, b)] ELSE q

(* ------------------------------------------------------------------ *)
(* Coordinator: NetJobs.handle_timeout and stop_and_kill_listeners.     *)
(* ------------------------------------------------------------------ *)
(* The branch handle_timeout takes. *)
HT_Branch(aborted, mh, rem) ==
  IF aborted # FALSE THEN "none"
  ELSE IF mh = MIN_HOSTS_ALL THEN "abort"
  ELSE IF rem # PyNone THEN (IF rem < 1 THEN "abort" ELSE "dec")
  ELSE "none"

(* ListenThread.kill() on each registered listener from the n-th on:
   running = False, then KILL on its socket. *)
RECURSIVE KillFrom(_, _, _)
KillFrom(n, l, q) ==
  IF n > Len(listeners) THEN [lt |-> l, ca |-> q]
  ELSE KillFrom(n + 1, [l EXCEPT ![listeners[n]].running = FALSE],
                CoordWrite(q, l[listeners[n]].sock, KILL_STRING))

(* handle_timeout(target) run by the main thread during prep_agents; no
   other thread of the coordinator is alive then. *)
MainHandleTimeout(t) ==
  LET b == HT_Branch(testAborted, plan.minHosts, timeoutsRemaining)
      k == KillFrom(1, lt, ca)
  IN  /\ failedT' = failedT \cup {t}
      /\ testAborted' = IF b = "abort" THEN TRUE ELSE testAborted
      /\ timeoutsRemaining' = IF b = "dec" THEN timeoutsRemaining - 1
                              ELSE timeoutsRemaining
      /\ lt' = IF b = "abort" THEN k.lt ELSE lt
      /\ ca' = IF b = "abort" THEN k.ca ELSE ca
      /\ killedT' = IF b = "abort"
                    THEN killedT \cup {listeners[n] : n \in 1..Len(listeners)}
                    ELSE killedT

(* ------------------------------------------------------------------ *)
(* Coordinator: NetJobs.start, prep_agents, start_agents,               *)
(* wait_for_results, clean_up (main thread).                            *)
(* ------------------------------------------------------------------ *)
PrepTarget == plan.targets[prep.i]
PrepNext == [i |-> prep.i + 1, sock |-> 0, msg |-> 0, await |-> FALSE]

C_TestTop ==
  /\ c_pc = "test_top"
  /\ sockets' = <<>>
  /\ listeners' = <<>>
  /\ testAborted' = FALSE
  /\ c_pc' = "prep"
  /\ UNCHANGED <<now, netVars, agentVars, plan, testsLeft, prep, strt, sockOf, lt, hostOf,
                 timeoutsRemaining, results, peerSent, failedT, killedT,
                 startSent, cfgLog, respLog>>

(* create_connection: it succeeds, raises socket.timeout, or raises another
   socket.error. *)
C_Connect(outcome) ==
  /\ c_pc = "prep"
  /\ prep.i <= PlanN(plan)
  /\ prep.sock = 0
  /\ CASE outcome = "ok" ->
            /\ nconn < MaxConns
            /\ nconn' = nconn + 1
            /\ cEnd' = [cEnd EXCEPT ![nconn + 1] = "open"]
            /\ hostOf' = [hostOf EXCEPT ![nconn + 1] = PrepTarget]
            /\ backlog' = IF PrepTarget = AgentHost THEN Append(backlog, nconn + 1)
                          ELSE backlog
            /\ prep' = [prep EXCEPT !.sock = nconn + 1]
            /\ UNCHANGED <<c_pc, ca, lt, testAborted, timeoutsRemaining, failedT, killedT>>
       [] outcome = "timeout" ->
            /\ MainHandleTimeout(PrepTarget)
            /\ prep' = PrepNext
            /\ UNCHANGED <<c_pc, nconn, cEnd, hostOf, backlog>>
       [] outcome = "error" ->
            /\ c_pc' = "exited"
            /\ UNCHANGED <<nconn, cEnd, hostOf, backlog, prep, ca, lt, testAborted,
                           timeoutsRemaining, failedT, killedT>>
  /\ UNCHANGED <<now, ac, aEnd, agentVars, plan, testsLeft, strt, sockets, sockOf, listeners,
                 results, peerSent, startSent, cfgLog, respLog>>

(* sock.sendall(testBytes) *)
C_PrepSend ==
  /\ c_pc = "prep"
  /\ prep.sock # 0
  /\ ~prep.await
  /\ LET m == CfgMsgs(plan, PrepTarget)[prep.msg + 1]
     IN  /\ ca' = CoordWrite(ca, prep.sock, m)
         /\ cfgLog' = [cfgLog EXCEPT ![prep.sock] = Append(@, m)]
  /\ prep' = [prep EXCEPT !.msg = @ + 1, !.await = TRUE]
  /\ UNCHANGED <<now, nconn, ac, cEnd, aEnd, backlog, agentVars, plan, testsLeft, c_pc, strt,
                 sockets, sockOf, listeners, lt, hostOf, testAborted,
                 timeoutsRemaining, results, peerSent, failedT, killedT,
                 startSent, respLog>>

(* What prep_agents does with a response to its message number prep.msg. *)
PrepResponse(response) ==
  /\ respLog' = [respLog EXCEPT ![prep.sock] = Append(@, response)]
  /\ IF response # CfgMsgs(plan, PrepTarget)[prep.msg]
     THEN /\ c_pc' = "exited"
          /\ UNCHANGED <<prep, sockets, sockOf>>
     ELSE IF prep.msg = Len(CfgMsgs(plan, PrepTarget))
     THEN /\ sockets' = Append(sockets, PrepTarget)
          /\ sockOf' = [sockOf EXCEPT ![PrepTarget] = prep.sock]
          /\ prep' = PrepNext
          /\ UNCHANGED c_pc
     ELSE /\ prep' = [prep EXCEPT !.await = FALSE]
          /\ UNCHANGED <<c_pc, sockets, sockOf>>

(* response = sock.recv(BUFFER_SIZE): bytes the peer wrote, or b'' when the
   peer has closed and nothing is left to read. *)
C_PrepRecv ==
  /\ c_pc = "prep"
  /\ prep.await
  /\ \/ \E k \in RecvCuts(ac[prep.sock]) :
          /\ PrepResponse(RecvBuf(ac[prep.sock], k))
          /\ ac' = [ac EXCEPT ![prep.sock] = RecvRest(@, k)]
     \/ /\ ac[prep.sock] = <<>>
        /\ aEnd[prep.sock] = "closed"
        /\ PrepResponse(EmptyBytes)
        /\ UNCHANGED ac
  /\ UNCHANGED <<now, nconn, ca, cEnd, aEnd, backlog, agentVars, plan, testsLeft, strt,
                 listeners, lt, hostOf, testAborted, timeoutsRemaining, results,
                 peerSent, failedT, killedT, startSent, cfgLog>>

(* sock.recv raises socket.timeout: nothing arrived in SOCKET_TIMEOUT. *)
C_PrepRecvTimeout ==
  /\ c_pc = "prep"
  /\ prep.await
  /\ ac[prep.sock] = <<>>
  /\ aEnd[prep.sock] # "closed"
  /\ MainHandleTimeout(PrepTarget)
  /\ prep' = PrepNext
  /\ UNCHANGED <<now, nconn, ac, cEnd, aEnd, backlog, agentVars, plan, testsLeft, c_pc, strt,
                 sockets, sockOf, listeners, hostOf, results, peerSent, startSent,
                 cfgLog, respLog>>

C_PrepDone ==
  /\ c_pc = "prep"
  /\ prep.i > PlanN(plan)
  /\ c_pc' = "start"
  /\ strt' = [i |-> 1, step |-> "listen"]
  /\ UNCHANGED <<now, netVars, agentVars, plan, testsLeft, prep, sockets, sockOf, listeners,
                 lt, hostOf, testAborted, timeoutsRemaining, results, peerSent,
                 failedT, killedT, startSent, cfgLog, respLog>>

(* A start_agents that went on to write START without making a listener. *)
C_StartListener_Skipped ==
  /\ c_pc = "start"
  /\ strt.i <= Len(sockets)
  /\ strt.step = "listen"
  /\ strt' = [strt EXCEPT !.step = "send"]
  /\ UNCHANGED <<now, netVars, agentVars, plan, testsLeft, c_pc, prep, sockets, sockOf,
                 listeners, lt, hostOf, testAborted, timeoutsRemaining, results,
                 peerSent, failedT, killedT, startSent, cfgLog, respLog>>

(* start_agents: listener = ListenThread(...); self.listeners[target] =
   listener; listener.start() *)
C_StartListener ==
  /\ c_pc = "start"
  /\ strt.i <= Len(sockets)
  /\ strt.step = "listen"
  /\ LET t == sockets[strt.i]
     IN  /\ lt' = [lt EXCEPT ![t] = [NoListener EXCEPT
                      !.pc = "start", !.timeout = ListenerTimeout(plan, t),
                      !.sock = sockOf[t]]]
         /\ listeners' = Append(listeners, t)
  /\ strt' = [strt EXCEPT !.step = "send"]
  /\ UNCHANGED <<now, netVars, agentVars, plan, testsLeft, c_pc, prep, sockets, sockOf, hostOf,
                 testAborted, timeoutsRemaining, results, peerSent, failedT,
                 killedT, startSent, cfgLog, respLog>>

(* start_agents: sock.sendall(START) *)
C_SendStart ==
  /\ c_pc = "start"
  /\ strt.i <= Len(sockets)
  /\ strt.step = "send"
  /\ ca' = CoordWrite(ca, sockOf[sockets[strt.i]], START_STRING)
  /\ startSent' = Append(startSent, [target |-> sockets[strt.i],
                                     registered |-> listeners])
  /\ strt' = [i |-> strt.i + 1, step |-> "listen"]
  /\ UNCHANGED <<now, nconn, ac, cEnd, aEnd, backlog, agentVars, plan, testsLeft, c_pc, prep,
                 sockets, sockOf, listeners, lt, hostOf, testAborted,
                 timeoutsRemaining, results, peerSent, failedT, killedT,
                 cfgLog, respLog>>

C_StartDone ==
  /\ c_pc = "start"
  /\ strt.i > Len(sockets)
  /\ c_pc' = "wait"
  /\ UNCHANGED <<now, netVars, agentVars, plan, testsLeft, prep, strt, sockets, sockOf,
                 listeners, lt, hostOf, testAborted, timeoutsRemaining, results,
                 peerSent, failedT, killedT, startSent, cfgLog, respLog>>

(* wait_for_results: every listener has been joined. *)
C_Wait ==
  /\ c_pc = "wait"
  /\ \A n \in 1..Len(listeners) : lt[listeners[n]].pc = "dead"
  /\ c_pc' = "clean"
  /\ UNCHANGED <<now, netVars, agentVars, plan, testsLeft, prep, strt, sockets, sockOf,
                 listeners, lt, hostOf, testAborted, timeoutsRemaining, results,
                 peerSent, failedT, killedT, startSent, cfgLog, respLog>>

(* clean_up closes the sockets in self.sockets; start() then goes on to
   the next test of self.tests, which is a TestConfig of its own (results,
   timeoutsRemaining) and gets listeners of its own, or returns. *)
C_CleanUp ==
  /\ c_pc = "clean"
  /\ cEnd' = [c \in Conns |->
                IF \E n \in 1..Len(sockets) : sockOf[sockets[n]] = c
                THEN "closed" ELSE cEnd[c]]
  /\ IF testsLeft > 0
     THEN /\ c_pc' = "test_top"
          /\ testsLeft' = testsLeft - 1
          /\ prep' = [i |-> 1, sock |-> 0, msg |-> 0, await |-> FALSE]
          /\ strt' = [i |-> 1, step |-> "listen"]
          /\ lt' = [t \in Targets |-> NoListener]
          /\ timeoutsRemaining' = InitTimeoutsRemaining(plan.minHosts)
          /\ results' = InitResults(plan)
          /\ failedT' = {}
          /\ killedT' = {}
          /\ startSent' = <<>>
     ELSE /\ c_pc' = "finished"
          /\ UNCHANGED <<testsLeft, prep, strt, lt, timeoutsRemaining, results,
                         failedT, killedT, startSent>>
  /\ UNCHANGED <<now, nconn, ca, ac, aEnd, backlog, agentVars, plan, sockets,
                 sockOf, listeners, hostOf, testAborted, peerSent, cfgLog, respLog>>

(* ------------------------------------------------------------------ *)
(* Coordinator: ListenThread.                                           *)
(* ------------------------------------------------------------------ *)
(* The frame of a step of a listener that touches only lt. *)
ListenerFrame ==
  UNCHANGED <<now, netVars, agentVars, plan, testsLeft, c_pc, prep, strt, sockets, sockOf,
              listeners, hostOf, testAborted, timeoutsRemaining, results,
              peerSent, failedT, killedT, startSent, cfgLog, respLog>>

(* run(): timeout 0 becomes None; running = True; startTime = time.time() *)
L_Start(t) ==
  /\ lt[t].pc = "start"
  /\ lt' = [lt EXCEPT ![t].pc = "loop", ![t].running = TRUE,
                      ![t].startTime = now,
                      ![t].timeout = IF @ = TIMEOUT_NONE THEN PyNone ELSE @]
  /\ ListenerFrame

(* A deadline test that allowed two more seconds. *)
ListenerDeadline_Late(l) == l.timeout # PyNone /\ now - l.startTime >= l.timeout + 2

ListenerDeadline(l) == l.timeout # PyNone /\ now - l.startTime >= l.timeout

(* while self.running: the deadline test; ListenThread.handle_timeout sets
   running = False and calls NetJobs.handle_timeout. *)
L_Loop(t) ==
  /\ lt[t].pc = "loop"
  /\ IF ~lt[t].running
     THEN /\ lt' = [lt EXCEPT ![t].pc = "signoff"]
          /\ UNCHANGED failedT
     ELSE IF ListenerDeadline(lt[t])
     THEN /\ lt' = [lt EXCEPT ![t].pc = "ht_check", ![t].running = FALSE,
                              ![t].via = "deadline"]
          /\ failedT' = failedT \cup {t}
     ELSE /\ lt' = [lt EXCEPT ![t].pc = "select", ![t].waited = FALSE]
          /\ UNCHANGED failedT
  /\ UNCHANGED <<now, netVars, agentVars, plan, testsLeft, c_pc, prep, strt, sockets, sockOf,
                 listeners, hostOf, testAborted, timeoutsRemaining, results,
                 peerSent, killedT, startSent, cfgLog, respLog>>

(* select returns with nothing to read after SELECT_TIMEOUT, or the peer
   has closed and recv returns b'', which "if buffer:" skips: in both cases
   the loop goes round. *)
L_SelectIdle(t) ==
  /\ lt[t].pc = "select"
  /\ ac[lt[t].sock] = <<>>
  /\ lt' = [lt EXCEPT ![t].pc = "loop"]
  /\ ListenerFrame

(* The key of test.results a target field names, "" when there is none. *)
TargetKey(field) ==
  IF \E t \in Targets : field = <<t>> /\ DOMAIN results[t] # {}
  THEN CHOOSE t \in Targets : field = <<t>>
  ELSE ""

(* process_result_string(message): the padding loop raises IndexError for
   fewer than four tokens, an unknown target raises KeyError. *)
ProcessResult(res, message) ==
  IF Len(message) < 4 \/ TargetKey(message[1]) = ""
  THEN [raised |-> TRUE, results |-> res]
  ELSE [raised |-> FALSE,
        results |-> [res EXCEPT ![TargetKey(message[1])] =
                       (message[2] :> <<message[3], message[4]>>) @@ @]]

(* buffer = self.sock.recv(BUFFER_SIZE) with data *)
L_Recv(t) ==
  /\ lt[t].pc = "select"
  /\ \E k \in RecvCuts(ac[lt[t].sock]) :
       LET buffer == RecvBuf(ac[lt[t].sock], k)
           r == ProcessResult(results, buffer)
       IN  /\ ac' = [ac EXCEPT ![lt[t].sock] = RecvRest(@, k)]
           /\ IF buffer = DONE_STRING
              THEN /\ lt' = [lt EXCEPT ![t].pc = "loop", ![t].running = FALSE]
                   /\ UNCHANGED <<results, failedT>>
              ELSE IF r.raised
              THEN /\ lt' = [lt EXCEPT ![t].pc = "ht_check", ![t].running = FALSE,
                                       ![t].via = "except"]
                   /\ failedT' = failedT \cup {t}
                   /\ UNCHANGED results
              ELSE /\ lt' = [lt EXCEPT ![t].pc = "loop"]
                   /\ results' = r.results
                   /\ UNCHANGED failedT
  /\ UNCHANGED <<now, nconn, ca, cEnd, aEnd, backlog, agentVars, plan, testsLeft, c_pc, prep,
                 strt, sockets, sockOf, listeners, hostOf, testAborted,
                 timeoutsRemaining, peerSent, killedT, startSent, cfgLog, respLog>>

(* NetJobs.handle_timeout in the listener's thread: the tests. *)
L_HtCheck(t) ==
  /\ lt[t].pc = "ht_check"
  /\ LET b == HT_Branch(testAborted, plan.minHosts, timeoutsRemaining)
     IN  lt' = [lt EXCEPT ![t].pc = CASE b = "abort" -> "ht_abort"
                                      [] b = "dec" -> "ht_dec"
                                      [] OTHER -> "signoff",
                          ![t].rem = IF b = "dec" THEN timeoutsRemaining ELSE @]
  /\ ListenerFrame

(* self.testAborted = True *)
L_HtAbort(t) ==
  /\ lt[t].pc = "ht_abort"
  /\ testAborted' = TRUE
  /\ lt' = [lt EXCEPT ![t].pc = "ht_kill", ![t].k = 1, ![t].klen = Len(listeners)]
  /\ UNCHANGED <<now, netVars, agentVars, plan, testsLeft, c_pc, prep, strt, sockets, sockOf,
                 listeners, hostOf, timeoutsRemaining, results, peerSent, failedT,
                 killedT, startSent, cfgLog, respLog>>

(* stop_and_kill_listeners: one step of the iteration over
   self.listeners.values().  The iterator raises RuntimeError when the
   dictionary has grown since the iteration began; raised under run()'s
   try it is caught and handle_timeout is called again, raised under the
   except clause it ends the thread. *)
L_HtKill(t) ==
  /\ lt[t].pc = "ht_kill"
  /\ IF Len(listeners) # lt[t].klen
     THEN /\ lt' = [lt EXCEPT ![t].pc = IF lt[t].via = "deadline" THEN "ht_check"
                                        ELSE "dead",
                              ![t].via = "except"]
          /\ UNCHANGED <<ca, killedT>>
     ELSE IF lt[t].k > lt[t].klen
     THEN /\ lt' = [lt EXCEPT ![t].pc = "signoff"]
          /\ UNCHANGED <<ca, killedT>>
     ELSE LET u == listeners[lt[t].k]
          IN  /\ lt' = [lt EXCEPT ![u].running = FALSE, ![t].k = @ + 1]
              /\ ca' = CoordWrite(ca, lt[u].sock, KILL_STRING)
              /\ killedT' = killedT \cup {u}
  /\ UNCHANGED <<now, nconn, ac, cEnd, aEnd, backlog, agentVars, plan, testsLeft, c_pc, prep,
                 strt, sockets, sockOf, listeners, hostOf, testAborted,
                 timeoutsRemaining, results, peerSent, failedT, startSent,
                 cfgLog, respLog>>

(* test.timeoutsRemaining -= 1 is a load, a subtraction and a store, and
   no lock is held: the value stored is one less than the value as it is
   now, or than the value as it was when the tests read it and before
   another thread stored its own. *)
L_HtDec(t) ==
  /\ lt[t].pc = "ht_dec"
  /\ \E v \in {timeoutsRemaining, lt[t].rem} : timeoutsRemaining' = v - 1
  /\ lt' = [lt EXCEPT ![t].pc = "signoff"]
  /\ UNCHANGED <<now, netVars, agentVars, plan, testsLeft, c_pc, prep, strt, sockets, sockOf,
                 listeners, hostOf, testAborted, results, peerSent, failedT,
                 killedT, startSent, cfgLog, respLog>>

(* print_signoff: the commands of the target still None become KILLED. *)
SignedOff(res, cmds) ==
  [c \in DOMAIN res |->
     IF (\E n \in 1..Len(cmds) : cmds[n] = c) /\ res[c] = NoResult
     THEN <<KILLED_STATUS, <<>>>> ELSE res[c]]

L_Signoff(t) ==
  /\ lt[t].pc = "signoff"
  /\ results' = [results EXCEPT ![t] = SignedOff(@, plan.specs[t])]
  /\ lt' = [lt EXCEPT ![t].pc = "dead"]
  /\ UNCHANGED <<now, netVars, agentVars, plan, testsLeft, c_pc, prep, strt, sockets, sockOf,
                 listeners, hostOf, testAborted, timeoutsRemaining, peerSent,
                 failedT, killedT, startSent, cfgLog, respLog>>

(* The steps of the main thread, and of the listener of target t. *)
MainNext ==
  \/ C_TestTop
  \/ \E outcome \in {"ok", "timeout", "error"} : C_Connect(outcome)
  \/ C_PrepSend \/ C_PrepRecv \/ C_PrepRecvTimeout \/ C_PrepDone
  \/ C_StartListener \/ C_SendStart \/ C_StartDone \/ C_Wait \/ C_CleanUp

ListenerNext(t) ==
  \/ L_Start(t) \/ L_Loop(t) \/ L_SelectIdle(t) \/ L_Recv(t) \/ L_HtCheck(t)
  \/ L_HtAbort(t) \/ L_HtKill(t) \/ L_HtDec(t) \/ L_Signoff(t)

CoordNext == MainNext \/ \E t \in Targets : ListenerNext(t)

(* ------------------------------------------------------------------ *)
(* Time.                                                                *)
(* ------------------------------------------------------------------ *)
(* The clock matters while some thread compares it with a deadline. *)
TimeWatched ==
  \/ \E i \in Threads : pt[i].pc = "loop" /\ pt[i].timeout # PyNone
  \/ \E t \in Targets : lt[t].pc \in {"loop", "select"} /\ lt[t].timeout # PyNone

Tick ==
  /\ now < MaxTime
  /\ TimeWatched
  /\ now' = now + 1
  /\ UNCHANGED <<coordVars, netVars, agentVars>>

(* ------------------------------------------------------------------ *)
(* The agent against a peer that follows the order of the protocol but  *)
(* may write a wrong record or token at any point, fall silent, or     *)
(* close.  One write is in flight at a time, except that KILL may      *)
(* follow another write at once.                                        *)
(* ------------------------------------------------------------------ *)
MaxInFlight == 2
MaxPeerConns == 1

PeerMsgs ==
  IF a_pc = "gs_recv"
  THEN {MsgBogus} \cup
       (IF name = <<>> THEN {MsgName("t1")}
        ELSE IF Len(commands) > Len(timeouts) THEN {MsgTimeout(0), MsgTimeout(1)}
        ELSE {READY_STRING} \cup
             (IF Len(commands) < MaxCmds
              THEN {MsgCommand(<<IF Len(commands) = 0 THEN "c1" ELSE "c2">>)}
              ELSE {}))
  ELSE IF a_pc = "wait_start" THEN {START_STRING, READY_STRING, KILL_STRING}
  ELSE {KILL_STRING, START_STRING}

(* A peer connects: the connection waits in the listen backlog. *)
E_Connect ==
  /\ nconn < MaxPeerConns
  /\ backlog = <<>>
  /\ nconn' = nconn + 1
  /\ cEnd' = [cEnd EXCEPT ![nconn + 1] = "open"]
  /\ backlog' = Append(backlog, nconn + 1)
  /\ UNCHANGED <<coordVars, now, ca, ac, aEnd, agentVars>>

E_Send(c) ==
  /\ cEnd[c] = "open"
  /\ sock = c
  /\ aEnd[c] = "open"
  /\ \E m \in PeerMsgs :
       /\ Len(ca[c]) < (IF m = KILL_STRING THEN MaxInFlight ELSE 1)
       /\ ca' = [ca EXCEPT ![c] = Append(@, m)]
  /\ UNCHANGED <<coordVars, now, nconn, ac, cEnd, aEnd, backlog, agentVars>>

E_Close(c) ==
  /\ cEnd[c] = "open"
  /\ sock = c
  /\ cEnd' = [cEnd EXCEPT ![c] = "closed"]
  /\ UNCHANGED <<coordVars, now, nconn, ca, ac, aEnd, backlog, agentVars>>

AgentNext ==
  \/ A_LoopTop \/ A_Accept \/ A_GetSpecsData \/ A_GetSpecsBreak \/ A_MkSOS
  \/ A_WaitStartExit \/ A_WaitStartData \/ A_WaitStartTimeout
  \/ \E ok \in BOOLEAN : A_Spawn(ok)
  \/ A_SpawnDone \/ A_Join \/ A_SendDone \/ A_SosStop \/ A_Close
  \/ \E j \in Threads : ProcExit(j)
  \/ \E i \in Threads :
       \/ P_Start(i) \/ P_Loop(i) \/ P_SrCheck(i) \/ P_SrComm(i) \/ P_SrSend(i)
  \/ \E c \in Conns :
       \/ S_Start(c) \/ S_Loop(c) \/ S_SelectIdle(c) \/ S_Recv(c) \/ S_Except(c)
       \/ S_KillRun(c) \/ S_KillRes(c)

NextAgent ==
  \/ AgentNext
  \/ Tick
  \/ E_Connect
  \/ \E c \in Conns : E_Send(c) \/ E_Close(c)

IdlePlans == {MkPlan(<<AgentHost>>, [t \in Targets |-> 0], MIN_HOSTS_ALL)}

InitAgentOnly == InitNet /\ InitAgent /\ InitCoord(IdlePlans, "off", 0)

SpecAgent == InitAgentOnly /\ [][NextAgent]_vars

(* ------------------------------------------------------------------ *)
(* The same agent and peer, where the peer may also write configuration *)
(* records after the agent has left get_specs.                          *)
(* ------------------------------------------------------------------ *)
LateMsgs == {MsgName("t2"), MsgCommand(CmdNames[2]), MsgTimeout(2)}

E_SendLate(c) ==
  /\ cEnd[c] = "open"
  /\ sock = c
  /\ aEnd[c] = "open"
  /\ a_pc \notin {"loop_top", "accept", "gs_recv"}
  /\ ca[c] = <<>>
  /\ peerSent[c] = 0
  /\ \E m \in LateMsgs : ca' = [ca EXCEPT ![c] = Append(@, m)]
  /\ peerSent' = [peerSent EXCEPT ![c] = 1]
  /\ UNCHANGED <<now, nconn, ac, cEnd, aEnd, backlog, agentVars, plan, testsLeft, c_pc, prep,
                 strt, sockets, sockOf, listeners, lt, hostOf, testAborted,
                 timeoutsRemaining, results, failedT, killedT, startSent,
                 cfgLog, respLog>>

NextLate == NextAgent \/ \E c \in Conns : E_SendLate(c)

SpecLate == InitAgentOnly /\ [][NextLate]_vars

(* ------------------------------------------------------------------ *)
(* get_specs against a peer that writes configuration records in any    *)
(* order: get_specs takes a timeout record whether or not a command     *)
(* came before it.                                                      *)
(* ------------------------------------------------------------------ *)
MaxSpecTimeouts == 3

SpecMsgs ==
  {READY_STRING}
  \cup (IF name = <<>> THEN {MsgName("t1")} ELSE {})
  \cup (IF Len(commands) < MaxCmds THEN {MsgCommand(<<"c1">>)} ELSE {})
  \cup (IF Len(timeouts) < MaxSpecTimeouts THEN {MsgTimeout(n) : n \in 0..2} ELSE {})

E_SendSpec(c) ==
  /\ cEnd[c] = "open"
  /\ sock = c
  /\ aEnd[c] = "open"
  /\ a_pc = "gs_recv"
  /\ ca[c] = <<>>
  /\ \E m \in SpecMsgs : ca' = [ca EXCEPT ![c] = Append(@, m)]
  /\ UNCHANGED <<coordVars, now, nconn, ac, cEnd, aEnd, backlog, agentVars>>

NextGetSpecs ==
  \/ A_LoopTop \/ A_Accept \/ A_GetSpecsData \/ A_GetSpecsBreak \/ A_MkSOS
  \/ E_Connect
  \/ \E c \in Conns : E_SendSpec(c)

SpecGetSpecs == InitAgentOnly /\ [][NextGetSpecs]_vars


(* ------------------------------------------------------------------ *)
(* The agent serving one connection after the other: each peer writes   *)
(* the configuration of one command without timeout, READY and START,  *)
(* each after the agent has read the one before, then possibly KILL,    *)
(* and leaves the closing to the agent.  No thread watches the clock.   *)
(* ------------------------------------------------------------------ *)
PeerScript ==
  <<MsgName("t1"), MsgCommand(CmdNames[1]), MsgTimeout(TIMEOUT_NONE), READY_STRING,
    START_STRING, KILL_STRING>>

(* A peer connects while the agent waits in accept. *)
E_ConnectNext ==
  /\ nconn < MaxConns
  /\ backlog = <<>>
  /\ a_pc = "accept"
  /\ nconn' = nconn + 1
  /\ cEnd' = [cEnd EXCEPT ![nconn + 1] = "open"]
  /\ backlog' = Append(backlog, nconn + 1)
  /\ UNCHANGED <<coordVars, now, ca, ac, aEnd, agentVars>>

E_Script(c) ==
  /\ cEnd[c] = "open"
  /\ sock = c
  /\ aEnd[c] = "open"
  /\ ca[c] = <<>>
  /\ peerSent[c] < Len(PeerScript)
  /\ ca' = [ca EXCEPT ![c] = Append(@, PeerScript[peerSent[c] + 1])]
  /\ peerSent' = [peerSent EXCEPT ![c] = @ + 1]
  /\ UNCHANGED <<now, nconn, ac, cEnd, aEnd, backlog, agentVars, plan, testsLeft, c_pc, prep,
                 strt, sockets, sockOf, listeners, lt, hostOf, testAborted,
                 timeoutsRemaining, results, failedT, killedT, startSent,
                 cfgLog, respLog>>

NextServe ==
  \/ AgentNext
  \/ E_ConnectNext
  \/ \E c \in Conns : E_Script(c)

SpecServe == InitAgentOnly /\ [][NextServe]_vars

(* ------------------------------------------------------------------ *)
(* The coordinator against agents on the other hosts that echo (or      *)
(* answer with something else, or not at all, or close), and after      *)
(* START write result records or short records and then DONE, or stop   *)
(* anywhere before.                                                     *)
(* ------------------------------------------------------------------ *)
MaxPeerWrites == 2

PeerConn(c) == c <= nconn /\ hostOf[c] # AgentHost /\ aEnd[c] # "closed"

PeerRecords(h) ==
  { << <<h>>, CmdNames[1], SUCCESS_STATUS, <<"hi", "LF">> >>,
    << <<h>>, CmdNames[1], ERROR_STATUS >>,
    DONE_STRING }

X_Echo(c) ==
  /\ PeerConn(c)
  /\ c = prep.sock
  /\ ca[c] # <<>>
  /\ ca' = [ca EXCEPT ![c] = Tail(@)]
  /\ \E e \in {Head(ca[c]), MsgBogus} : ac' = [ac EXCEPT ![c] = Append(@, e)]
  /\ UNCHANGED <<now, nconn, cEnd, aEnd, backlog, agentVars, coordVars>>

X_Result(c) ==
  /\ PeerConn(c)
  /\ \E n \in 1..Len(startSent) : startSent[n].target = hostOf[c]
  /\ \E r \in PeerRecords(hostOf[c]) :
       /\ peerSent[c] < (IF r = DONE_STRING THEN MaxPeerWrites ELSE MaxPeerWrites - 1)
       /\ ac' = [ac EXCEPT ![c] = Append(@, r)]
       /\ peerSent' = [peerSent EXCEPT ![c] = IF r = DONE_STRING THEN MaxPeerWrites
                                               ELSE @ + 1]
  /\ UNCHANGED <<now, nconn, ca, cEnd, aEnd, backlog, agentVars, plan, testsLeft, c_pc, prep,
                 strt, sockets, sockOf, listeners, lt, hostOf, testAborted,
                 timeoutsRemaining, results, failedT, killedT, startSent,
                 cfgLog, respLog>>

X_Close(c) ==
  /\ PeerConn(c)
  /\ c = prep.sock
  /\ prep.await
  /\ aEnd' = [aEnd EXCEPT ![c] = "closed"]
  /\ UNCHANGED <<now, nconn, ca, ac, cEnd, backlog, agentVars, coordVars>>

CoordPlans ==
  {MkPlan(<<"t2", "t3">>, [t \in Targets |-> IF t = "t2" THEN a ELSE b], mh) :
     a \in {0, 1}, b \in {1}, mh \in {MIN_HOSTS_ALL, 1, 2}}

InitCoordOnly == InitNet /\ InitAgent /\ InitCoord(CoordPlans, "test_top", 0)

NextCoord ==
  \/ CoordNext
  \/ Tick
  \/ \E c \in Conns : X_Echo(c) \/ X_Result(c) \/ X_Close(c)

SpecCoord == InitCoordOnly /\ [][NextCoord]_vars

(* ------------------------------------------------------------------ *)
(* The coordinator with one target whose jobs have timeouts of their    *)
(* own, against an agent that may also close after START.  The threads  *)
(* of the coordinator are scheduled fairly; the agent need do nothing.  *)
(* ------------------------------------------------------------------ *)
MaxPlanCmds == 2

(* A plan for one target: tos[n] is the timeout the parser stored for the
   n-th command (0 for "none"), gt the general timeout. *)
MkPlanCmds(tgt, tos, mh, gt) ==
  [targets |-> <<tgt>>,
   specs |-> [t \in Targets |-> SubSeq(CmdNames, 1, Len(tos))],
   timeouts |-> [t \in Targets |->
                   [c \in {CmdNames[n] : n \in 1..Len(tos)} |->
                      tos[CHOOSE n \in 1..Len(tos) : CmdNames[n] = c]]],
   minHosts |-> mh,
   generalTimeout |-> gt]

ListenPlans ==
  {MkPlanCmds("t2", tos, mh, gt) :
     tos \in UNION {[1..n -> {0, 1, 2}] : n \in 1..MaxPlanCmds},
     mh \in {MIN_HOSTS_ALL, 1}, gt \in {0, 1}}

(* The agent closes its end after START was written to it. *)
X_Hangup(c) ==
  /\ PeerConn(c)
  /\ \E n \in 1..Len(startSent) : startSent[n].target = hostOf[c]
  /\ aEnd' = [aEnd EXCEPT ![c] = "closed"]
  /\ UNCHANGED <<now, nconn, ca, ac, cEnd, backlog, agentVars, coordVars>>

InitListen == InitNet /\ InitAgent /\ InitCoord(ListenPlans, "test_top", 0)

NextListen ==
  \/ CoordNext
  \/ Tick
  \/ \E c \in Conns : X_Echo(c) \/ X_Result(c) \/ X_Close(c) \/ X_Hangup(c)

SpecListen ==
  /\ InitListen
  /\ [][NextListen]_vars
  /\ WF_vars(MainNext)
  /\ \A t \in Targets : WF_vars(ListenerNext(t))

(* ------------------------------------------------------------------ *)
(* Two tests one after the other, each with the same one target.        *)
(* ------------------------------------------------------------------ *)
MaxMoreTests == 1

TestsPlans ==
  {MkPlanCmds("t2", <<to>>, mh, 0) : to \in {0, 1}, mh \in {MIN_HOSTS_ALL, 1}}

InitTests == InitNet /\ InitAgent /\ InitCoord(TestsPlans, "test_top", MaxMoreTests)

SpecTests == InitTests /\ [][NextListen]_vars

(* ------------------------------------------------------------------ *)
(* The same coordinator against an agent that reports every command:    *)
(* one SUCCESS record for each command of the target, then DONE.        *)
(* ------------------------------------------------------------------ *)
X_Record(c) ==
  /\ PeerConn(c)
  /\ \E n \in 1..Len(startSent) : startSent[n].target = hostOf[c]
  /\ peerSent[c] <= Len(plan.specs[hostOf[c]])
  /\ LET cmds == plan.specs[hostOf[c]]
         r == IF peerSent[c] < Len(cmds)
              THEN << <<hostOf[c]>>, cmds[peerSent[c] + 1], SUCCESS_STATUS, <<"hi", "LF">> >>
              ELSE DONE_STRING
     IN  ac' = [ac EXCEPT ![c] = Append(@, r)]
  /\ peerSent' = [peerSent EXCEPT ![c] = @ + 1]
  /\ UNCHANGED <<now, nconn, ca, cEnd, aEnd, backlog, agentVars, plan, testsLeft, c_pc, prep,
                 strt, sockets, sockOf, listeners, lt, hostOf, testAborted,
                 timeoutsRemaining, results, failedT, killedT, startSent,
                 cfgLog, respLog>>

NextRecords ==
  \/ CoordNext
  \/ Tick
  \/ \E c \in Conns : X_Echo(c) \/ X_Record(c)

SpecRecords == InitListen /\ [][NextRecords]_vars

(* ------------------------------------------------------------------ *)
(* The same with the listener's waits timed: the clock counts seconds, a *)
(* select with nothing to read returns SELECT_TIMEOUT after it was      *)
(* entered, and the other statements of a listener take no time.        *)
(* ------------------------------------------------------------------ *)
(* The peer of the listener's socket has closed and all was read. *)
ListenerEOF(l) == ac[l.sock] = <<>> /\ aEnd[l.sock] = "closed"

(* select([self.sock], [], [], SELECT_TIMEOUT) returns with nothing to read
   only when its timeout has run out, or at once on a closed socket. *)
L_SelectTimeout(t) ==
  /\ lt[t].pc = "select"
  /\ lt[t].waited \/ ListenerEOF(lt[t])
  /\ L_SelectIdle(t)

ListenerNextTimed(t) ==
  \/ L_Start(t) \/ L_Loop(t) \/ L_SelectTimeout(t) \/ L_Recv(t) \/ L_HtCheck(t)
  \/ L_HtAbort(t) \/ L_HtKill(t) \/ L_HtDec(t) \/ L_Signoff(t)

(* A second passes: every live listener is in select and has tested its
   deadline since the second before. *)
TickTimed ==
  /\ now < MaxTime
  /\ TimeWatched
  /\ \A t \in Targets :
       \/ lt[t].pc \in {"none", "dead"}
       \/ lt[t].pc = "select" /\ ~lt[t].waited
  /\ now' = now + SELECT_TIMEOUT
  /\ lt' = [t \in Targets |->
              IF lt[t].pc = "select" THEN [lt[t] EXCEPT !.waited = TRUE] ELSE lt[t]]
  /\ UNCHANGED <<netVars, agentVars, plan, testsLeft, c_pc, prep, strt, sockets, sockOf,
                 listeners, hostOf, testAborted, timeoutsRemaining, results,
                 peerSent, failedT, killedT, startSent, cfgLog, respLog>>

NextTimed ==
  \/ MainNext
  \/ \E t \in Targets : ListenerNextTimed(t)
  \/ TickTimed
  \/ \E c \in Conns : X_Echo(c) \/ X_Result(c) \/ X_Close(c) \/ X_Hangup(c)

SpecTimed == InitListen /\ [][NextTimed]_vars

(* ------------------------------------------------------------------ *)
(* The coordinator with the agent: one test against the agent's host.   *)
(* ------------------------------------------------------------------ *)
JointPlans ==
  {MkPlan(<<AgentHost>>, [t \in Targets |-> a], mh) :
     a \in {0, 1}, mh \in {MIN_HOSTS_ALL, 1}}

Init == InitNet /\ InitAgent /\ InitCoord(JointPlans, "test_top", 0)

Next == CoordNext \/ AgentNext \/ Tick

Spec == Init /\ [][Next]_vars

(* ------------------------------------------------------------------ *)
(* The coordinator with the agent, for a configuration file whose       *)
(* command contains a tab character.                                    *)
(* ------------------------------------------------------------------ *)
TabCommand == <<"a", "TAB", "b">>

TabPlans ==
  {[p EXCEPT !.specs = [t \in Targets |-> <<TabCommand>>],
             !.timeouts = [t \in Targets |-> (TabCommand :> p.timeouts[t][CmdNames[1]])]] :
     p \in JointPlans}

InitTab == InitNet /\ InitAgent /\ InitCoord(TabPlans, "test_top", 0)

SpecTab == InitTab /\ [][Next]_vars

(* ------------------------------------------------------------------ *)
(* Properties of the agent.                                             *)
(* ------------------------------------------------------------------ *)
IsRecord(b) == Len(b) >= 4
RecordFor(b, cmd) == IsRecord(b) /\ b[2] = cmd
RecordsFor(c, cmd) == {k \in 1..Len(sentLog[c]) : RecordFor(sentLog[c][k], cmd)}
DoneAt(c) == {k \in 1..Len(sentLog[c]) : sentLog[c][k] = DONE_STRING}
(* Some thread was handed to stop_and_kill_subproc by the SOSThread of c. *)
SosTouched(c) == sos[c].idx > 0

(* C3 (kill terminality): on every connection, no result record written
   after the SOSThread received KILL has status SUCCESS. *)
C3_KillTerminality ==
  \A c \in Conns :
    killAt[c] >= 0 =>
      \A k \in (killAt[c] + 1)..Len(sentLog[c]) :
        ~(IsRecord(sentLog[c][k]) /\ sentLog[c][k][3] = SUCCESS_STATUS)

(* C4 (DONE ordering): on every connection DONE is written at most once,
   and when it is written a result record was written before it for every
   command registered on the connection. *)
C4_DoneOrdering ==
  \A c \in Conns :
    /\ Cardinality(DoneAt(c)) <= 1
    /\ \A k \in DoneAt(c) :
         \A n \in 1..Len(regAtDone[c]) :
           \E j \in 1..(k - 1) : RecordFor(sentLog[c][j], regAtDone[c][n])

(* C8 (no deadline for NONE): a ProcThread whose timeout is None never
   terminates its subprocess from run(), and when its subprocess ended by
   itself with code 0 and empty stderr and no SOSThread touched the thread,
   the record it wrote is SUCCESS with the subprocess's stdout. *)
C8_NoDeadlineForNone ==
  \A i \in Threads :
    pt[i].pc # "none" /\ pt[i].timeout = PyNone =>
      /\ pt[i].why = ""
      /\ LET p == procs[pt[i].proc]
         IN  (/\ pt[i].pc = "dead" /\ p.st = "exit" /\ p.rc = 0 /\ p.err = <<>>
              /\ ~TooLong(ComposeResult(name, pt[i].command, p))
              /\ \A c \in Conns : ~SosTouched(c))
             => \E k \in RecordsFor(pt[i].sock, pt[i].command) :
                  /\ sentLog[pt[i].sock][k][3] = SUCCESS_STATUS
                  /\ sentLog[pt[i].sock][k][4] = p.out

(* C9 (status rule): a result composed from a subprocess that ended by
   itself has status SUCCESS iff the return code is 0 and stderr is empty,
   and otherwise status ERROR with stderr as output. *)
C9_StatusRule ==
  \A i \in Threads :
    LET p == procs[pt[i].proc]
        r == pt[i].result
    IN  (pt[i].pc # "none" /\ pt[i].composed /\ p.rc # -15
         /\ r[3] \in {SUCCESS_STATUS, ERROR_STATUS})
        => /\ r[3] = SUCCESS_STATUS <=> (p.rc = 0 /\ p.err = <<>>)
           /\ r[3] = ERROR_STATUS => r[4] = p.err

(* The ProcThread i took the deadline branch of run() and has finished. *)
TimedOutAndDone(i) == pt[i].pc = "dead" /\ pt[i].why = "timeout"

(* C10 as stated (per-command timeout): a ProcThread that found its finite
   deadline passed with the subprocess running has terminated the
   subprocess, and the one record it wrote has status TIMEOUT and empty
   output. *)
C10_TimeoutRecord ==
  \A i \in Threads :
    TimedOutAndDone(i) =>
      /\ procs[pt[i].proc].st = "exit"
      /\ Cardinality(RecordsFor(pt[i].sock, pt[i].command)) = 1
      /\ \A k \in RecordsFor(pt[i].sock, pt[i].command) :
           /\ sentLog[pt[i].sock][k][3] = TIMEOUT_STATUS
           /\ sentLog[pt[i].sock][k][4] = <<>>

(* C10 as amended: ... the one record it wrote has empty output and status
   TIMEOUT, or KILLED when an SOSThread that received KILL assigned the
   result after the ProcThread did. *)
C10_TimeoutOrKilledRecord ==
  \A i \in Threads :
    TimedOutAndDone(i) =>
      /\ procs[pt[i].proc].st = "exit"
      /\ Cardinality(RecordsFor(pt[i].sock, pt[i].command)) = 1
      /\ \A k \in RecordsFor(pt[i].sock, pt[i].command) :
           /\ \/ sentLog[pt[i].sock][k][3] = TIMEOUT_STATUS
              \/ /\ sentLog[pt[i].sock][k][3] = KILLED_STATUS
                 /\ \E c \in Conns : killAt[c] >= 0 /\ SosTouched(c)
           /\ sentLog[pt[i].sock][k][4] = <<>>

C10_Witness ==
  \E i \in Threads :
    /\ TimedOutAndDone(i)
    /\ \E k \in RecordsFor(pt[i].sock, pt[i].command) :
         sentLog[pt[i].sock][k][3] = TIMEOUT_STATUS

(* The commands of connection c that had no record written when the
   SOSThread read KILL. *)
UnreportedAtKill(c) ==
  {regAtDone[c][n] : n \in 1..Len(regAtDone[c])} \
  {cmd \in {regAtDone[c][n] : n \in 1..Len(regAtDone[c])} :
     \E k \in 1..killAt[c] : RecordFor(sentLog[c][k], cmd)}

(* C11 (remote kill completes), the part that is settled once the agent has
   closed: on a connection whose SOSThread read KILL, a KILLED record was
   written after the KILL for every command that had no record before it. *)
C11_KillRecords ==
  \A c \in Conns :
    (aEnd[c] = "closed" /\ killAt[c] >= 0) =>
      \A cmd \in UnreportedAtKill(c) :
        \E k \in (killAt[c] + 1)..Len(sentLog[c]) :
          /\ RecordFor(sentLog[c][k], cmd)
          /\ sentLog[c][k][3] = KILLED_STATUS

(* C16 (record size bound): nothing the agent wrote is longer than
   BUFFER_SIZE, and a ProcThread that has ended with a result longer than
   BUFFER_SIZE, its connection still open, has written a record for its
   command. *)
C16_RecordSizeBound ==
  /\ \A c \in Conns : \A k \in 1..Len(sentLog[c]) :
       BytesLen(sentLog[c][k]) <= BUFFER_SIZE
  /\ \A i \in Threads :
       (pt[i].pc = "dead" /\ TooLong(pt[i].result) /\ aEnd[pt[i].sock] = "open") =>
         RecordsFor(pt[i].sock, pt[i].command) # {}

(* The largest of the timeouts registered by get_specs, None when one of
   them is None (a received 0). *)
LongestOrNone(tos) ==
  IF \E n \in 1..Len(tos) : tos[n] = PyNone THEN PyNone
  ELSE CHOOSE m \in {tos[n] : n \in 1..Len(tos)} : \A n \in 1..Len(tos) : tos[n] <= m

(* C19 (sosTimeout computation): once get_specs has registered timeouts,
   sosTimeout is None if a received value was 0 and the largest received
   value otherwise, and the SOSThread made after get_specs has that
   timeout. *)
C19_SosTimeoutRule ==
  /\ (a_pc \in {"gs_recv", "mk_sos"} /\ timeouts # <<>>) =>
       sosTimeout = LongestOrNone(timeouts)
  /\ (a_pc = "wait_start" /\ timeouts # <<>>) =>
       sos[sock].timeout = LongestOrNone(timeouts)

(* A buffer get_specs received that is not READY and has fewer than two
   fields or a key other than name, command, timeout. *)
UnknownKey(buf) ==
  /\ buf # READY_STRING
  /\ \/ Len(buf) < 2
     \/ StripNL(buf[1]) \notin {<<"name">>, <<"command">>, <<"timeout">>}

(* C20 (unknown key closes without DONE): on a connection where get_specs
   received a record with an unknown key or too few fields, no ProcThread
   is made and DONE is never written. *)
C20_UnknownKeyNoDone ==
  \A c \in Conns :
    (\E n \in 1..Len(agLog[c]) : UnknownKey(agLog[c][n][1])) =>
      /\ \A i \in Threads : pt[i].pc # "none" => pt[i].sock # c
      /\ DoneAt(c) = {}

(* main() reads, while it waits for START, exactly one READY. *)
ReadsSecondReady ==
  /\ a_pc = "wait_start"
  /\ ready
  /\ ca[sock] # <<>>
  /\ Head(ca[sock]) = READY_STRING
  /\ ca'[sock] = Tail(ca[sock])

(* C21 (control tokens are idempotent on receipt): an agent that has
   registered READY and reads a second READY is left as it was, still
   ready and waiting for START. *)
C21_TokensIdempotent ==
  [][ReadsSecondReady => (ready' /\ a_pc' = "wait_start")]_vars

(* C22 (the agent always returns to accept): a read timeout while the
   agent waits for START does not stop it: the main thread has not ended
   with its SOSThread made and never started. *)
C22_AgentReturnsToAccept ==
  ~(a_pc = "crashed" /\ sos[sock].pc = "new")

(* C32 (one connection at a time on the agent): the agent's end of a
   connection is open only while it is the connection main() serves; a
   ProcThread is alive only for that connection and only between accept and
   the close; and main() is at accept again only after it closed the socket. *)
C32_OneConnection ==
  /\ \A c \in Conns : aEnd[c] = "open" => c = sock
  /\ \A i \in Threads :
       pt[i].pc \notin {"none", "dead"} =>
         (pt[i].sock = sock /\ a_pc \notin {"loop_top", "accept"})
  /\ a_pc \in {"loop_top", "accept"} => (sock = 0 \/ aEnd[sock] = "closed")

(* The agent served a connection to the end, with a record and DONE, and a
   ProcThread of the next connection is running. *)
C32_Witness ==
  /\ sock = 2
  /\ DoneAt(1) # {}
  /\ RecordsFor(1, CmdNames[1]) # {}
  /\ aEnd[1] = "closed"
  /\ \E i \in Threads : pt[i].pc = "loop" /\ pt[i].sock = 2

(* The SOSThread of connection c takes a step of stop_and_kill_run or
   timeout_handler. *)
SosKillStep(c) == sos[c].pc \in {"k_run", "k_res"} /\ sos'[c] # sos[c]

(* C33 (no state leaks across agent connections): a step of the kill loop
   of the SOSThread of connection c leaves every ProcThread of another
   connection, and its subprocess, as they were. *)
C33_NoLeakAcrossConnections ==
  [][\A c \in Conns :
       SosKillStep(c) =>
         \A i \in Threads :
           (pt[i].pc # "none" /\ pt[i].sock # c) =>
             (pt'[i] = pt[i] /\ procs'[pt[i].proc] = procs[pt[i].proc])]_vars

(* The SOSThread of connection c read KILL and stop_and_kill_run has
   returned. *)
KillProcessed(c) == killAt[c] >= 0 /\ sos[c].pc \notin {"k_run", "k_res"}

(* C34 (KILL reaches every subprocess of the run): once the SOSThread has
   processed KILL, no ProcThread of the connection has a running subprocess
   and a result that was never assigned. *)
C34_KillReachesAll ==
  \A c \in Conns :
    KillProcessed(c) =>
      \A i \in Threads :
        (pt[i].pc # "none" /\ pt[i].sock = c) =>
          ~(procs[pt[i].proc].st = "run" /\ pt[i].result = ResultNONE)

(* C35 (exactly one record per command): a ProcThread that has finished
   while its connection is open has written exactly one record for its
   command. *)
C35_OneRecordPerCommand ==
  \A i \in Threads :
    (pt[i].pc = "dead" /\ aEnd[pt[i].sock] = "open") =>
      Cardinality(RecordsFor(pt[i].sock, pt[i].command)) = 1

(* C36 (spawn failure is reported): no turn of start_run ends main(),
   whether or not subprocess.Popen succeeded, and the ProcThread made for
   the i-th command supervises the subprocess spawned for the i-th command. *)
C36_SpawnFailureReported ==
  /\ [][a_pc = "spawn" => a_pc' # "crashed"]_vars
  /\ [](\A i \in Threads : pt[i].pc # "none" => pt[i].proc = i)

(* C37 (nothing runs before START, configuration is frozen at READY): a
   subprocess is spawned only in start_run, which main() enters only when
   ready is set and the buffer it read is START; ready is set only when the
   last buffer get_specs received and echoed is READY; and outside get_specs
   no step changes the registered commands and timeouts. *)
C37_FrozenAtReady ==
  /\ [][(\E j \in Threads : procs'[j] # procs[j] /\ procs'[j].st = "run") =>
          (a_pc = "spawn" /\ ready)]_vars
  /\ [][(a_pc # "spawn" /\ a_pc' = "spawn") =>
          /\ a_pc = "wait_start"
          /\ ready
          /\ \E k \in RecvCuts(ca[sock]) :
               /\ RecvBuf(ca[sock], k) = START_STRING
               /\ ca'[sock] = RecvRest(ca[sock], k)]_vars
  /\ [](ready => /\ agLog[sock] # <<>>
                 /\ agLog[sock][Len(agLog[sock])] = <<READY_STRING, READY_STRING>>)
  /\ [][a_pc \notin {"accept", "gs_recv"} =>
          (commands' = commands /\ timeouts' = timeouts)]_vars

(* A run was started by START after READY, its ProcThread wrote a record,
   and a configuration record written after READY was read meanwhile: the
   registered command and timeout are those registered before READY. *)
C37_Witness ==
  /\ sock # 0
  /\ peerSent[sock] = 1
  /\ ca[sock] = <<>>
  /\ commands = <<CmdNames[1]>>
  /\ Len(timeouts) = 1
  /\ \E i \in Threads : pt[i].pc = "dead" /\ RecordsFor(sock, pt[i].command) # {}

(* ------------------------------------------------------------------ *)
(* Properties of the coordinator.                                       *)
(* ------------------------------------------------------------------ *)
TestDone == c_pc = "finished"
PlanTargetSet == {plan.targets[n] : n \in 1..PlanN(plan)}
SeqSet(q) == {q[n] : n \in 1..Len(q)}

(* C1 (result totality): when the test has finished clean_up, every
   command of every target of the plan has a result (status, output) with
   status one of SUCCESS, ERROR, TIMEOUT, KILLED. *)
C1_ResultTotality ==
  TestDone =>
    \A t \in PlanTargetSet :
      \A cmd \in SeqSet(plan.specs[t]) :
        /\ results[t][cmd] # NoResult
        /\ results[t][cmd][1] \in Statuses

(* C2 (minhosts threshold): at the end of a test with N targets,
   minHosts = K in 1..N and M targets handle_timeout was called for,
   testAborted is false iff N - M >= K. *)
C2_MinhostsThreshold ==
  (TestDone /\ plan.minHosts \in 1..PlanN(plan)) =>
    (testAborted = FALSE <=> PlanN(plan) - Cardinality(failedT) >= plan.minHosts)

(* C6 (START ordering across the test): whenever START was written to a
   connection, a listener was registered for every connection that
   succeeded in prep_agents. *)
C6_StartAfterAllListeners ==
  \A n \in 1..Len(startSent) :
    \A t \in SeqSet(sockets) : t \in SeqSet(startSent[n].registered)

(* C7 (abort reaches every survivor): at the end of a test with minHosts =
   ALL in which a target failed, the test is aborted, kill() was called on
   the listener of every target that did not fail, and no command of such
   a target is left without a result. *)
C7_AbortReachesSurvivors ==
  (TestDone /\ plan.minHosts = MIN_HOSTS_ALL /\ failedT # {}) =>
    /\ testAborted = TRUE
    /\ \A t \in SeqSet(sockets) \ failedT :
         /\ t \in killedT
         /\ \A cmd \in SeqSet(plan.specs[t]) : results[t][cmd] # NoResult

(* C12 (listener termination), for a listener without deadline: once the
   peer of a running listener has closed the connection, the listener
   eventually terminates. *)
C12_ListenerExitsOnClose ==
  \A t \in Targets :
    (/\ lt[t].pc \notin {"none", "start", "dead"}
     /\ lt[t].timeout = PyNone
     /\ aEnd[lt[t].sock] = "closed") ~> (lt[t].pc = "dead")

(* No byte was written to the listener's socket after START. *)
NoTraffic(l) == peerSent[l.sock] = 0

(* C13 (timeout monotonicity): a listener with finite timeout T whose socket
   got no bytes is in its loop at most T + SELECT_TIMEOUT seconds after it
   started, and when it has left the loop without being killed it has
   called handle_timeout. *)
C13_TimeoutMonotonicity ==
  \A t \in Targets :
    (lt[t].pc \notin {"none", "start"} /\ lt[t].timeout # PyNone /\ NoTraffic(lt[t])) =>
      /\ lt[t].pc \in {"loop", "select"} /\ lt[t].running =>
           now - lt[t].startTime <= lt[t].timeout + SELECT_TIMEOUT
      /\ lt[t].pc \notin {"loop", "select"} /\ t \notin killedT => t \in failedT

(* A listener with a finite timeout and a silent socket has left its loop
   through handle_timeout. *)
C13_Witness ==
  \E t \in Targets :
    /\ lt[t].pc = "dead"
    /\ lt[t].timeout # PyNone
    /\ NoTraffic(lt[t])
    /\ lt[t].via = "deadline"
    /\ t \in failedT

(* The response to message n of connection c differed from the bytes sent. *)
EchoMismatch(c) ==
  \E n \in 1..Len(respLog[c]) : respLog[c][n] # cfgLog[c][n]

(* C14 (prepare failures go through the abort policy): no failure of the
   prepare phase ends the coordinator process, and a target whose echo
   differed from the bytes sent has had handle_timeout called for it. *)
C14_PrepFailureHandled ==
  /\ c_pc # "exited"
  /\ \A c \in 1..nconn : EchoMismatch(c) => hostOf[c] \in failedT

(* C15 (test-to-test isolation): the coordinator process does not end
   while a test remains to be run, whatever failed in the test before, and
   a test begins its prepare phase with testAborted false and the socket
   and listener registries empty. *)
C15_TestIsolation ==
  /\ c_pc = "exited" => testsLeft = 0
  /\ (c_pc = "prep" /\ prep.i = 1 /\ prep.sock = 0) =>
       (~testAborted /\ sockets = <<>> /\ listeners = <<>>)

(* print_signoff by the listener of t changes test.results in this step:
   the entries of t's commands that were None become (KILLED, ""), every
   other entry of every target stays as it was. *)
SignoffStep(t) ==
  (lt[t].pc = "signoff" /\ lt'[t].pc = "dead") =>
    \A u \in Targets : \A cmd \in DOMAIN results[u] :
      results'[u][cmd] =
        IF u = t /\ cmd \in SeqSet(plan.specs[t]) /\ results[u][cmd] = NoResult
        THEN <<KILLED_STATUS, <<>>>> ELSE results[u][cmd]

(* C17 (signoff is write-once completion): signoff sets exactly the unset
   entries of its own target to (KILLED, "") and leaves the others, and
   every command of a target whose listener has exited has a stored
   result. *)
C17_SignoffWriteOnce ==
  /\ [][\A t \in Targets : SignoffStep(t)]_vars
  /\ [](\A t \in Targets :
          lt[t].pc = "dead" =>
            \A cmd \in SeqSet(plan.specs[t]) : results[t][cmd] # NoResult)

(* The timeouts of the jobs of target t, as the parser stored them. *)
JobTimeouts(t) == {plan.timeouts[t][cmd] : cmd \in SeqSet(plan.specs[t])}
SetMax(S) == CHOOSE m \in S : \A x \in S : x <= m

(* C18 (listenerTimeout computation): the deadline of a running listener
   is None when some job of its target has timeout none, and the largest
   of the target's job timeouts otherwise. *)
C18_ListenerTimeoutRule ==
  \A t \in Targets :
    lt[t].pc \notin {"none", "start"} =>
      lt[t].timeout = IF TIMEOUT_NONE \in JobTimeouts(t) THEN PyNone
                      ELSE SetMax(JobTimeouts(t))

(* The listener of t executes the abort branch of handle_timeout:
   testAborted = True, the diagnostic, stop_and_kill_listeners. *)
AbortStep(t) == lt[t].pc = "ht_abort" /\ lt'[t].pc = "ht_kill"

(* C23 (abort happens once): the abort branch is executed only when
   testAborted is false, so at most once in a test, and testAborted is not
   reset before the next test begins. *)
C23_AbortOnce ==
  /\ [][\A t \in Targets : AbortStep(t) => ~testAborted]_vars
  /\ [][(testAborted /\ ~testAborted') => c_pc = "test_top"]_vars

(* handle_timeout executes its decrement branch: in the listener of t, or
   in the main thread during prep_agents. *)
DecStep(t) == lt[t].pc = "ht_dec" /\ lt'[t].pc = "signoff"
MainDecStep ==
  /\ c_pc = "prep"
  /\ failedT' # failedT
  /\ HT_Branch(testAborted, plan.minHosts, timeoutsRemaining) = "dec"

(* C24 (a non-aborting failure is local): a step of handle_timeout that
   takes the decrement branch makes timeoutsRemaining one less, leaves
   testAborted false, kills no listener and writes no KILL. *)
C24_NonAbortingLocal ==
  [][((\E t \in Targets : DecStep(t)) \/ MainDecStep) =>
       /\ timeoutsRemaining' = timeoutsRemaining - 1
       /\ ~testAborted'
       /\ killedT' = killedT
       /\ ca' = ca]_vars

(* START was written to the connection of target t. *)
StartWritten(t) == \E n \in 1..Len(startSent) : startSent[n].target = t

(* C25 (KILL never precedes START): a target whose listener had kill()
   called, which writes KILL to its connection, had START written to that
   connection before. *)
C25_KillAfterStart ==
  \A t \in killedT : StartWritten(t)

(* C26 (per-connection listener before START): whenever START was written
   to a connection, the listener of that connection was registered and
   started, and an agent that has written results has a listener on its
   connection. *)
C26_ListenerBeforeStart ==
  /\ \A n \in 1..Len(startSent) :
       /\ startSent[n].target \in SeqSet(startSent[n].registered)
       /\ lt[startSent[n].target].pc # "none"
  /\ \A c \in 1..nconn :
       peerSent[c] > 0 =>
         (lt[hostOf[c]].pc # "none" /\ lt[hostOf[c]].sock = c)

(* START was written to two connections and a listener stored a record. *)
C26_Witness ==
  /\ Len(startSent) = 2
  /\ \E t \in Targets :
       /\ StartWritten(t)
       /\ results[t][CmdNames[1]] # NoResult
       /\ results[t][CmdNames[1]][1] = SUCCESS_STATUS

(* The n-th field of a record, empty when the record has fewer fields. *)
Padded(b, n) == IF n <= Len(b) THEN b[n] ELSE <<>>

(* The listener of t reads, in one recv, exactly one record of fewer than
   four fields. *)
ReadsShortRecord(t) ==
  /\ lt[t].pc = "select"
  /\ ac[lt[t].sock] # <<>>
  /\ Head(ac[lt[t].sock]) # DONE_STRING
  /\ Len(Head(ac[lt[t].sock])) \in 2..3
  /\ ac'[lt[t].sock] = Tail(ac[lt[t].sock])

(* C27 (short records are padded, not failed): a listener that reads a
   record of fewer than four fields stores its status, and output padded
   with the empty string, under the record's target and command, stays
   running and does not call handle_timeout. *)
C27_ShortRecordPadded ==
  [][\A t \in Targets :
       ReadsShortRecord(t) =>
         LET b == Head(ac[lt[t].sock])
         IN  /\ results'[t][b[2]] = <<Padded(b, 3), Padded(b, 4)>>
             /\ lt'[t].running
             /\ failedT' = failedT]_vars

(* The listener of t reads, in one recv, the first k writes of its agent:
   records of four fields and, as the last, DONE. *)
ReadsDone(t, k) ==
  /\ lt[t].pc = "select"
  /\ k \in 1..Len(ac[lt[t].sock])
  /\ ac[lt[t].sock][k] = DONE_STRING
  /\ \A j \in 1..(k - 1) : Len(ac[lt[t].sock][j]) = 4
  /\ ac'[lt[t].sock] = SubSeq(ac[lt[t].sock], k + 1, Len(ac[lt[t].sock]))

(* C28 (DONE is recognised however the stream is segmented): a listener
   that reads the bytes of DONE, alone or after a record in the same read,
   leaves its loop and does not call handle_timeout. *)
C28_DoneRecognised ==
  [][\A t \in Targets :
       (\E k \in 1..MaxPeerWrites : ReadsDone(t, k)) =>
         (~lt'[t].running /\ failedT' = failedT)]_vars

(* The listener of t reads, in one recv, the first k writes of its agent,
   each a record of four fields. *)
ReadsRecords(t, k) ==
  /\ lt[t].pc = "select"
  /\ k \in 1..Len(ac[lt[t].sock])
  /\ \A j \in 1..k : Len(ac[lt[t].sock][j]) = 4
  /\ ac'[lt[t].sock] = SubSeq(ac[lt[t].sock], k + 1, Len(ac[lt[t].sock]))

(* C29 (reported statuses are stored faithfully): when a listener reads
   records, one or several in a single read, the result stored for the
   command of each of them is the (status, output) of that record. *)
C29_StatusStored ==
  [][\A t \in Targets : \A k \in 1..MaxPlanCmds :
       ReadsRecords(t, k) =>
         \A j \in 1..k :
           LET b == ac[lt[t].sock][j]
           IN  results'[t][b[2]] = <<b[3], b[4]>>]_vars

(* C30 (cleanup closes every connection): when the test has finished, the
   coordinator's end of every connection it opened is closed. *)
C30_CleanupClosesAll ==
  TestDone => \A c \in 1..nconn : cEnd[c] = "closed"

(* The order in which start() moves from one phase to the next. *)
PhaseOrder ==
  { <<"test_top", "prep">>, <<"prep", "start">>, <<"prep", "exited">>,
    <<"start", "wait">>, <<"wait", "clean">>, <<"clean", "test_top">>,
    <<"clean", "finished">> }

(* clean_up has returned and start() goes on to the next test. *)
NextTestStep == c_pc = "clean" /\ c_pc' = "test_top"

(* C31 (tests are sequential): the phases of a test occur in the order
   prepare, start, collect, cleanup; connections are opened only in the
   prepare phase; and when start() goes on to the next test every listener
   of the test has ended and every connection opened so far is closed. *)
C31_TestsSequential ==
  /\ [][c_pc' # c_pc => <<c_pc, c_pc'>> \in PhaseOrder]_vars
  /\ [][nconn' # nconn => c_pc = "prep"]_vars
  /\ [][NextTestStep =>
          /\ \A t \in Targets : lt[t].pc \in {"none", "dead"}
          /\ \A c \in 1..nconn : cEnd'[c] = "closed"]_vars

(* C38 (kill() stops a listener): a listener that had kill() called is not
   left in its read loop with running set, no deadline and nothing to read,
   where only traffic from its peer could make it leave the loop. *)
C38_KillStopsListener ==
  \A t \in killedT :
    ~(/\ lt[t].pc \in {"loop", "select"}
      /\ lt[t].running
      /\ lt[t].timeout = PyNone
      /\ ac[lt[t].sock] = <<>>)

(* The calls of handle_timeout that took and finished the decrement branch:
   those of the main thread in prep_agents, which run one after the other
   (the first minHosts of them decrement), and those of the listeners that
   read a positive timeoutsRemaining and stored their result. *)
DecCalls ==
  Min(Cardinality({t \in failedT : lt[t].pc = "none"}), plan.minHosts)
  + Cardinality({t \in Targets : lt[t].rem >= 1 /\ lt[t].pc \in {"signoff", "dead"}})

(* C39 (timeoutsRemaining stays consistent): in a test with positive
   minHosts, timeoutsRemaining is never negative and is its initial value
   less the number of handle_timeout calls that took the decrement branch. *)
C39_TimeoutsRemainingConsistent ==
  plan.minHosts >= 1 =>
    /\ timeoutsRemaining >= 0
    /\ timeoutsRemaining = InitTimeoutsRemaining(plan.minHosts) - DecCalls

(* The listener of target u takes a step that can store a result: it reads
   from its socket, or it signs off. *)
StoringStep(u) == lt[u].pc \in {"select", "signoff"} /\ lt'[u].pc # lt[u].pc

(* C40 (a listener writes only its own target's results): no step adds an
   entry to test.results, and an entry results[u][cmd] is changed only by a
   step of the listener of u that reads or signs off, cmd being a command
   of u's plan. *)
C40_ListenerWritesOwn ==
  [][/\ \A u \in Targets : DOMAIN results'[u] = DOMAIN results[u]
     /\ \A u \in Targets : \A cmd \in DOMAIN results[u] :
          results'[u][cmd] # results[u][cmd] =>
            (StoringStep(u) /\ cmd \in SeqSet(plan.specs[u]))]_vars

(* ------------------------------------------------------------------ *)
(* Properties of the coordinator with the agent.                        *)
(* ------------------------------------------------------------------ *)
IsPrefix(p, q) == Len(p) <= Len(q) /\ SubSeq(q, 1, Len(p)) = p

(* C5 (echo discipline): on every connection the coordinator wrote its
   configuration messages in the order name, command, timeout, READY, each
   one after the first only after it read a response equal to the one
   before; and the n-th echo the agent wrote is equal to the bytes it read
   and to the n-th message the coordinator wrote. *)
C5_EchoDiscipline ==
  \A c \in Conns :
    /\ Len(cfgLog[c]) <= Len(respLog[c]) + 1
    /\ \A n \in 1..(Len(cfgLog[c]) - 1) : respLog[c][n] = cfgLog[c][n]
    /\ hostOf[c] # "" => IsPrefix(cfgLog[c], CfgMsgs(plan, hostOf[c]))
    /\ Len(agLog[c]) <= Len(cfgLog[c])
    /\ \A n \in 1..Len(agLog[c]) :
         /\ agLog[c][n][2] = agLog[c][n][1]
         /\ agLog[c][n][2] = cfgLog[c][n]

(* The coordinator has read the agent's echo of READY. *)
C5_Witness ==
  \E c \in Conns :
    /\ hostOf[c] = AgentHost
    /\ sockOf[AgentHost] = c
    /\ Len(agLog[c]) = Len(CfgMsgs(plan, AgentHost))
    /\ respLog[c] = CfgMsgs(plan, AgentHost)

====
